---- MODULE Spec2Model ----
(***************************************************************************)
(* A model of the vim-chatgpt agent core:                                  *)
(*   - chat_gpt, the turn loop of python3/chatgpt/core.py (Spec, FairSpec) *)
(*   - execute_tool / check_tool_approval, the dispatcher and the Approval *)
(*     Gate of python3/chatgpt/tools.py (ToolSpec)                         *)
(*   - validate_file_path, the path gate of tools.py (PathSpec)            *)
(*   - generate_conversation_summary of summary.py (SumSpec) and the load  *)
(*     of the history in core.py (HistSpec)                                *)
(*   - the stream adapters of providers.py (OpenAISpec, AnthropicSpec)     *)
(* Each specification drives its own group of variables; the variables of  *)
(* the other groups keep their initial values.                             *)
(***************************************************************************)
EXTENDS Integers, Sequences, FiniteSets, TLC

VARIABLES
    \* ---- chat_gpt (core.py) ----
    pc,                    \* position of chat_gpt in its body
    provider_name,         \* g:chat_gpt_provider
    enable_tools,          \* g:chat_gpt_enable_tools
    require_plan_approval, \* g:chat_gpt_require_plan_approval
    suppress_display,      \* g:chat_gpt_suppress_display
    session_enabled,       \* g:chat_gpt_session_mode == 1
    plan_file,             \* plan.md of the project directory
    messages,              \* entries appended to `messages` since the last stream_chat call
    tool_iteration,
    in_planning_phase,
    plan_loop_count,
    accumulated_content,
    tool_calls_to_process,
    tool_results,
    approval,              \* the answer read by input() in the current loop iteration, "-" if none
    running,               \* id of the call execute_tool is working on, 0 when none
    executed,              \* ids handed to execute_tool since the last stream_chat call, in order
    requests,              \* number of provider.stream_chat calls of the turn
    outcome,               \* how the turn ended, "" while it runs
    plan_presentations,    \* responses in a row that present a plan and carry no tool call
    displayed,             \* DisplayChatGPTResponse was called in this turn
    appended,              \* the kinds of text this turn has appended to history.txt
    \* ---- execute_tool / Approval Gate (tools.py) ----
    approved_tools,        \* _approved_tools: tool name -> "always" | "denied" ("unset" = no key)
    cfg_new,               \* g:llm_agent_require_tool_approval ("" = unset or empty)
    cfg_old,               \* g:chat_gpt_require_tool_approval ("" = unset or empty)
    last_call,             \* what the last execute_tool / check_tool_approval call did
    \* ---- validate_file_path (tools.py) ----
    vcall,                 \* what the last validate_file_path call did
    \* ---- conversation summary (summary.py, create_file of tools.py) ----
    history,               \* history.txt: whether it exists, its size in bytes
    summary,               \* summary.md: whether it exists, its lines
    appends,               \* number of appends to history.txt so far
    win_new,               \* g:llm_agent_recent_history_size ("" = unset or empty)
    win_old,               \* g:chat_gpt_recent_history_size ("" = unset or empty)
    last_pass,             \* what the last write of summary.md (or attempt) did
    prompt,                \* the prompt the last summary pass built
    \* ---- loading of the history at the start of a turn (core.py) ----
    history_txt,           \* the bytes of history.txt
    load,                  \* what the last load of the history did
    \* ---- the provider adapters (providers.py) ----
    sse_open,              \* a stream_chat generator is reading its response
    tool_calls_accumulator, \* OpenAIProvider.stream_chat: index -> id, name, arguments
    tool_use_blocks,       \* AnthropicProvider.stream_chat: index -> id, name, input
    arrived,               \* what the response has carried for the tool calls so far
    yielded                \* the events yielded for the last line read

turnVars == <<pc, provider_name, enable_tools, require_plan_approval, suppress_display,
              session_enabled, plan_file, messages, tool_iteration, in_planning_phase,
              plan_loop_count, accumulated_content, tool_calls_to_process, tool_results,
              approval, running, executed, requests, outcome, plan_presentations,
              displayed, appended>>
\* turnVars without plan_file, for the steps outside a turn that write plan.md.
turnVarsButPlan == <<pc, provider_name, enable_tools, require_plan_approval,
                     suppress_display, session_enabled, messages, tool_iteration,
                     in_planning_phase, plan_loop_count, accumulated_content,
                     tool_calls_to_process, tool_results, approval, running, executed,
                     requests, outcome, plan_presentations, displayed,
                     appended>>
toolVars == <<approved_tools, cfg_new, cfg_old, last_call>>
pathVars == <<vcall>>
sumVars == <<history, summary, appends, win_new, win_old, last_pass, prompt>>
histVars == <<history_txt, load>>
sseVars == <<sse_open, tool_calls_accumulator, tool_use_blocks, arrived, yielded>>
vars == <<turnVars, toolVars, pathVars, sumVars, histVars, sseVars>>

(***************************************************************************)
(* Bounds of the model.                                                    *)
(***************************************************************************)
\* Largest number of tool calls in one batch returned by the model.
MaxBatch == 2
\* Longest path (in components) handed to validate_file_path.
MaxPathLen == 3
\* Largest number of appends to history.txt in a session.
MaxAppends == 2
\* Largest number of messages in the history.txt a turn loads.
MaxMsgs == 7
\* Largest number of tool-call fragments and block starts in one response.
MaxFragments == 3

(***************************************************************************)
(* Text. A text is a sequence of tokens; the tokens are the substrings the *)
(* code looks for, "\n" stands for whitespace and "text" for other prose.  *)
(***************************************************************************)
Tokens == {"GOAL:", "PLAN:", "1. ", "REVISED PLAN", "= REVISED PLAN", "\n", "text"}

\* `needle in text` for the needles the code uses; "= REVISED PLAN" contains
\* "REVISED PLAN" as a substring.
Contains(text, needle) ==
    \E i \in 1..Len(text) :
        \/ text[i] = needle
        \/ needle = "REVISED PLAN" /\ text[i] = "= REVISED PLAN"

RECURSIVE LStrip(_)
LStrip(text) ==
    IF text # <<>> /\ Head(text) = "\n" THEN LStrip(Tail(text)) ELSE text

RECURSIVE RStrip(_)
RStrip(text) ==
    IF text # <<>> /\ text[Len(text)] = "\n"
    THEN RStrip(SubSeq(text, 1, Len(text) - 1))
    ELSE text

\* str.strip()
Strip(text) == RStrip(LStrip(text))

\* The response texts the model may stream.
Contents ==
    { <<>>,
      <<"text">>,
      <<"GOAL:", "PLAN:", "text">>,
      <<"GOAL:", "PLAN:", "1. ", "text">>,
      <<"\n", "GOAL:", "PLAN:", "1. ", "text", "\n">>,
      <<"= REVISED PLAN", "GOAL:", "PLAN:", "1. ">> }


(***************************************************************************)
(* chat_gpt: configuration, provider registry, message shapes.             *)
(***************************************************************************)
\* max_tool_iterations = 25
max_tool_iterations == 25

\* Values of g:chat_gpt_provider; "azure" stands for any name create_provider
\* does not know.
ProviderNames == {"openai", "anthropic", "gemini", "ollama", "azure"}

\* create_provider: the adapter a configured name yields.
create_provider(name) ==
    CASE name = "anthropic"  -> "AnthropicProvider"
      [] name = "gemini"     -> "GoogleProvider"
      [] name = "ollama"     -> "OllamaProvider"
      [] name = "openrouter" -> "OpenRouterProvider"
      [] OTHER               -> "OpenAIProvider"

\* supports_tools() of each adapter (BaseProvider returns False).
supports_tools(adapter) == adapter \in {"OpenAIProvider", "AnthropicProvider"}

\* The shape create_messages returns: a list, or a dict holding 'messages'
\* (Anthropic) or 'contents' (Gemini).
create_messages(adapter) ==
    CASE adapter = "AnthropicProvider" -> "dict_messages"
      [] adapter = "GoogleProvider"    -> "dict_contents"
      [] OTHER                         -> "list"

MessagesShape == create_messages(create_provider(provider_name))

\* tools = get_tool_definitions() if enable_tools and provider.supports_tools()
ToolsOffered == enable_tools /\ supports_tools(create_provider(provider_name))

Msg(role, kind, ids, content) ==
    [role |-> role, kind |-> kind, ids |-> ids, content |-> content]

\* The append of a text message in the plan workflow:
\*   if provider_name == 'anthropic' and isinstance(messages, dict): append
\*   elif isinstance(messages, list): append
AppendText(msgs, m) ==
    IF \/ provider_name = "anthropic" /\ MessagesShape \in {"dict_messages", "dict_contents"}
       \/ MessagesShape = "list"
    THEN Append(msgs, m)
    ELSE msgs

\* The assistant message with all tool_use blocks, added before the tools run
\* (Anthropic only).
AppendToolUse(msgs, content, calls) ==
    IF provider_name = "anthropic" /\ MessagesShape = "dict_messages"
    THEN Append(msgs, Msg("assistant", "tool_use", calls,
                          IF Strip(content) # <<>> THEN content ELSE <<>>))
    ELSE msgs

\* The pairs with the tool message put before the assistant message.
RECURSIVE OpenAIPairsSwapped(_)
OpenAIPairsSwapped(results) ==
    IF results = <<>> THEN <<>>
    ELSE <<Msg("tool", "tool_result", <<Head(results)>>, <<>>),
           Msg("assistant", "tool_calls", <<Head(results)>>, <<>>)>>
         \o OpenAIPairsSwapped(Tail(results))

RECURSIVE OpenAIPairs(_)
OpenAIPairs(results) ==
    IF results = <<>> THEN <<>>
    ELSE <<Msg("assistant", "tool_calls", <<Head(results)>>, <<>>),
           Msg("tool", "tool_result", <<Head(results)>>, <<>>)>>
         \o OpenAIPairs(Tail(results))

\* "Add tool results to messages - format depends on provider".
AppendToolResults(msgs, results) ==
    IF provider_name = "openai"
    THEN IF MessagesShape = "list" THEN msgs \o OpenAIPairs(results) ELSE msgs
    ELSE IF provider_name = "anthropic"
    THEN IF MessagesShape = "dict_messages" /\ results # <<>>
         THEN Append(msgs, Msg("user", "tool_result", results, <<>>))
         ELSE msgs
    ELSE msgs

(***************************************************************************)
(* The plan file (utils.py).                                               *)
(***************************************************************************)
NoPlan == [exists |-> FALSE, body |-> <<>>]
PlanFile(body) == [exists |-> TRUE, body |-> body]
\* A plan approved in an earlier turn.
OldPlan == PlanFile(<<"GOAL:", "PLAN:", "1. ", "text", "text">>)

\* save_plan: writes the timestamp header and plan_content.strip(); nothing
\* when session mode is off.
save_plan(file, plan_content) ==
    IF ~session_enabled THEN file ELSE PlanFile(Strip(plan_content))

(***************************************************************************)
(* Plan detection and user answers.                                        *)
(***************************************************************************)
has_text_markers(content) == Contains(content, "GOAL:") /\ Contains(content, "PLAN:")

\* The step test satisfied by the PLAN: marker alone.
has_numbered_stepsLoose(content) == Contains(content, "PLAN:") \/ Contains(content, "1. ")

\* re.search(r'\d+\.\s+', accumulated_content)
has_numbered_steps(content) == Contains(content, "1. ")

is_revised_plan(content, planning) ==
    \/ Contains(content, "= REVISED PLAN")
    \/ Contains(content, "REVISED PLAN") /\ ~planning

\* What the user may type at an input() prompt.
Answers == {"y", "Y", "yes", "n", "N", "no", "r", "revise", "", "maybe"}

\* str.lower()
Lower(a) == CASE a = "Y" -> "y" [] a = "N" -> "n" [] OTHER -> a

\* The answer test without .lower().
IsCancelCaseSensitive(a) == a \in {"n", "no"}

\* approval.lower() in ['n', 'no']
IsCancel(a) == Lower(a) \in {"n", "no"}
\* approval.lower() in ['r', 'revise']
IsRevise(a) == Lower(a) \in {"r", "revise"}
\* The answer test of the revised-plan prompt taking Enter for a yes.
IsYesOrEnter(a) == Lower(a) \in {"y", "yes", ""}

\* the answer test of the revised-plan prompt
IsYes(a) == Lower(a) \in {"y", "yes"}

(***************************************************************************)
(* What the model may return.                                              *)
(***************************************************************************)
\* A batch is a sequence of distinct tool-call ids: 1..n in ascending or in
\* descending order.
Batches ==
    { [i \in 1..n |-> i] : n \in 1..MaxBatch }
    \cup { [i \in 1..n |-> n + 1 - i] : n \in 1..MaxBatch }

\* Text streamed next to tool calls.
ToolContents == { <<>>, <<"text">>, <<"REVISED PLAN", "text">> }

\* (accumulated_content, tool_calls_to_process) after one stream; <<>> stands
\* for "no tool calls" (None, or an empty list, or no finish-reason at all).
Responses ==
    { <<c, <<>>>> : c \in Contents }
    \cup (IF ToolsOffered THEN ToolContents \X Batches ELSE {})


(***************************************************************************)
(* chat_gpt: the turn.                                                     *)
(***************************************************************************)
TurnInit ==
    /\ pc = "start"
    /\ provider_name \in ProviderNames
    /\ enable_tools \in BOOLEAN
    /\ require_plan_approval \in BOOLEAN
    /\ suppress_display \in BOOLEAN
    /\ session_enabled \in BOOLEAN
    /\ plan_file \in {NoPlan, OldPlan}
    /\ messages = <<>>
    /\ tool_iteration = 0
    /\ in_planning_phase = FALSE
    /\ plan_loop_count = 0
    /\ accumulated_content = <<>>
    /\ tool_calls_to_process = <<>>
    /\ tool_results = <<>>
    /\ approval = "-"
    /\ running = 0
    /\ executed = <<>>
    /\ requests = 0
    /\ outcome = ""
    /\ plan_presentations = 0
    /\ displayed = FALSE
    /\ appended = {}

\* The turn variables an action of the loop body may leave alone.
Config == <<provider_name, enable_tools, require_plan_approval, suppress_display,
            session_enabled>>

\* An end of the turn that tries the request again after an exception.
ReturnRetrying(how) ==
    /\ pc' = IF how = "exception" /\ requests < 2 THEN "stream" ELSE "done"
    /\ outcome' = how

\* The turn is over: chat_gpt returns.
Return(how) ==
    /\ pc' = "done"
    /\ outcome' = how

\* The loop test written with <= : one round too many.
LoopHeadInclusive(n) ==
    IF n <= max_tool_iterations
    THEN pc' = "stream" /\ outcome' = outcome
    ELSE Return("ceiling")

\* The message the user sees when the turn ends the way `how` says, "none"
\* if the code shows or prints nothing at that exit.
EndNotice(how) ==
    CASE how = "loop_error"        -> "ERROR: Model keeps presenting plans without executing"
      [] how = "cancelled"         -> "Plan cancelled by user"
      [] how = "revised_cancelled" -> "Revised plan cancelled by user"
      [] how = "exception"         -> "Error streaming"
      [] how = "provider_error"    -> "Error creating provider"
      [] how = "messages_error"    -> "Error creating messages"
      [] OTHER                     -> "none"

\* A display guarded by nothing.
DisplaysAlways(suppress) == TRUE

\* `if not suppress_display:` in front of a call of DisplayChatGPTResponse.
Displays(suppress) == ~suppress

\* displayed after a point of the code that calls DisplayChatGPTResponse when
\* `shown` holds.
Shown(shown) == displayed \/ shown

\* save_to_history(content), for content of one kind ("prompt": the framed
\* user prompt, "reply": text the model streamed, "notice": a header, a
\* prompt for an answer, a tool result): with session mode on the content is
\* appended to history.txt, with session mode off nothing is written. `hist`
\* is what has been appended so far, by kind.
save_to_history(enabled, hist, kind) ==
    IF enabled THEN hist \cup {kind} ELSE hist

\* DisplayChatGPTResponse(response, finish_reason, session_id) of the plugin's
\* Vim script: it shows the response and hands it to save_to_history.
DisplayChatGPTResponse(enabled, hist, kind) == save_to_history(enabled, hist, kind)

\* appended after a point of the code that calls DisplayChatGPTResponse with
\* text of the kind `kind` when `shown` holds.
Appended(shown, kind) ==
    IF shown THEN DisplayChatGPTResponse(session_enabled, appended, kind) ELSE appended

\* `while tool_iteration < max_tool_iterations`, evaluated with the counter n.
LoopHead(n) ==
    IF n < max_tool_iterations
    THEN pc' = "stream" /\ outcome' = outcome
    ELSE Return("ceiling")

\* Lines 45-63 and 270-300: create the provider, build the messages, set the
\* loop variables.
Start ==
    /\ pc = "start"
    /\ \E r \in {"ok", "provider_error", "messages_error"} :
        /\ IF r = "ok"
           THEN /\ in_planning_phase' = require_plan_approval
                /\ tool_iteration' = 0
                /\ plan_loop_count' = 0
                /\ LoopHead(0)
           ELSE /\ Return(r)
                /\ UNCHANGED <<in_planning_phase, tool_iteration, plan_loop_count>>
        \* lines 264-267: in a session the prompt is shown, after the provider
        \* was created and before the messages are built
        /\ displayed' = IF r = "provider_error"
                        THEN displayed
                        ELSE Shown(session_enabled /\ Displays(suppress_display))
        /\ appended' = IF r = "provider_error"
                       THEN appended
                       ELSE Appended(session_enabled /\ Displays(suppress_display),
                                     "prompt")
    /\ UNCHANGED <<Config, plan_file, messages, accumulated_content, tool_calls_to_process,
                   tool_results, approval, running, executed, requests>>
    /\ UNCHANGED plan_presentations
    /\ UNCHANGED <<toolVars, pathVars, sumVars, histVars, sseVars>>

\* Lines 300-328: one provider.stream_chat call, consumed to its end.
StreamChat ==
    /\ pc = "stream"
    /\ requests' = requests + 1
    /\ messages' = <<>>
    /\ \E r \in Responses :
        /\ accumulated_content' = r[1]
        /\ tool_calls_to_process' = r[2]
        \* lines 309-315: a chunk with content is shown
        /\ appended' = Appended(Displays(suppress_display) /\ r[1] # <<>>, "reply")
    /\ pc' = "decide"
    /\ approval' = "-"
    /\ executed' = <<>>
    \* lines 313-327: every content chunk and the finish reason are shown
    /\ displayed' = Shown(Displays(suppress_display))
    /\ UNCHANGED <<Config, plan_file, tool_iteration, in_planning_phase, plan_loop_count,
                   tool_results, running, outcome>>
    /\ UNCHANGED plan_presentations
    /\ UNCHANGED <<toolVars, pathVars, sumVars, histVars, sseVars>>

\* stream_chat raises (a non-200 response, a transport error): the except
\* clause of lines 598-603 ends the turn.
StreamRaises ==
    /\ pc = "stream"
    /\ requests' = requests + 1
    /\ messages' = <<>>
    /\ Return("exception")
    /\ approval' = "-"
    /\ executed' = <<>>
    \* the stream may raise before its first chunk or after some content
    /\ \E some \in BOOLEAN :
        /\ displayed' = IF some THEN Shown(Displays(suppress_display)) ELSE displayed
        /\ appended' = IF some THEN Appended(Displays(suppress_display), "reply")
                       ELSE appended
    /\ UNCHANGED <<Config, plan_file, tool_iteration, in_planning_phase, plan_loop_count,
                   accumulated_content, tool_calls_to_process, tool_results,
                   running>>
    /\ UNCHANGED plan_presentations
    /\ UNCHANGED <<toolVars, pathVars, sumVars, histVars, sseVars>>

\* Lines 487-520: the head of the tool-execution step.
BeginToolRound ==
    /\ tool_iteration' = tool_iteration + 1
    /\ messages' = AppendToolUse(messages, accumulated_content, tool_calls_to_process)
    /\ plan_loop_count' = 0
    /\ tool_results' = <<>>
    /\ executed' = <<>>
    /\ plan_presentations' = 0
    /\ pc' = "exec"
    /\ outcome' = outcome

\* Lines 487-523 entered with tool_calls_to_process = None: the counter is
\* incremented and iterating over None raises TypeError (for Anthropic at
\* line 505, before plan_loop_count is reset).
BeginToolRoundWithNone ==
    /\ tool_iteration' = tool_iteration + 1
    /\ plan_loop_count' = IF provider_name = "anthropic" /\ MessagesShape = "dict_messages"
                          THEN plan_loop_count + 1 ELSE 0
    /\ Return("exception")

\* Lines 330-362 and 440-450: a response without tool calls.
DecideNoToolCalls ==
    /\ pc = "decide"
    /\ tool_calls_to_process = <<>>
    /\ IF has_text_markers(accumulated_content) /\ require_plan_approval /\ in_planning_phase
       THEN IF plan_loop_count + 1 > 2
            THEN /\ plan_loop_count' = plan_loop_count + 1
                 /\ Return("loop_error")
                 /\ UNCHANGED <<messages, tool_iteration>>
            ELSE IF ~has_numbered_steps(accumulated_content)
            THEN /\ plan_loop_count' = plan_loop_count + 1
                 /\ Return("answer")
                 /\ UNCHANGED <<messages, tool_iteration>>
            ELSE /\ messages' = AppendText(messages,
                                   Msg("assistant", "text", <<>>, accumulated_content))
                 /\ IF ~suppress_display
                    THEN /\ plan_loop_count' = plan_loop_count + 1
                         /\ pc' = "approval"
                         /\ UNCHANGED <<tool_iteration, outcome>>
                    ELSE BeginToolRoundWithNone
       ELSE /\ Return("answer")
            /\ UNCHANGED <<messages, tool_iteration, plan_loop_count>>
    /\ plan_presentations' =
           IF has_text_markers(accumulated_content) /\ has_numbered_steps(accumulated_content)
           THEN plan_presentations + 1
           ELSE 0
    \* line 353 shows the loop error whatever suppress_display is; lines 378-381
    \* show the approval prompt, line 492 the iteration header
    /\ displayed' =
           IF has_text_markers(accumulated_content) /\ require_plan_approval /\ in_planning_phase
           THEN IF plan_loop_count + 1 > 2 THEN Shown(TRUE)
                ELSE IF ~has_numbered_steps(accumulated_content) THEN displayed
                ELSE Shown(Displays(suppress_display))
           ELSE displayed
    /\ appended' =
           IF has_text_markers(accumulated_content) /\ require_plan_approval /\ in_planning_phase
           THEN IF plan_loop_count + 1 > 2 THEN Appended(TRUE, "notice")
                ELSE IF ~has_numbered_steps(accumulated_content) THEN appended
                ELSE Appended(Displays(suppress_display), "notice")
           ELSE appended
    /\ UNCHANGED <<Config, plan_file, in_planning_phase, accumulated_content,
                   tool_calls_to_process, tool_results, approval, running, executed, requests>>
    /\ UNCHANGED <<toolVars, pathVars, sumVars, histVars, sseVars>>

\* Lines 384-439: the user's answer to "Approve? [y]es / [n]o / [r]evise".
PlanApproval ==
    /\ pc = "approval"
    /\ \E a \in Answers :
        /\ approval' = a
        /\ IF IsCancel(a)
           THEN /\ Return("cancelled")
                /\ UNCHANGED <<in_planning_phase, plan_file, messages>>
           ELSE IF IsRevise(a)
           THEN /\ in_planning_phase' = FALSE
                /\ messages' = AppendText(messages, Msg("user", "revision", <<>>, <<>>))
                /\ pc' = "stream"
                /\ UNCHANGED <<plan_file, outcome>>
           ELSE /\ in_planning_phase' = FALSE
                /\ plan_file' = save_plan(plan_file, accumulated_content)
                /\ messages' = AppendText(messages, Msg("user", "directive", <<>>, <<>>))
                /\ pc' = "stream"
                /\ outcome' = outcome
    \* lines 388, 392, 422: each answer is acknowledged on the display
    /\ displayed' = Shown(TRUE)
    /\ appended' = Appended(TRUE, "notice")
    /\ UNCHANGED <<Config, tool_iteration, plan_loop_count, accumulated_content,
                   tool_calls_to_process, tool_results, running, executed, requests>>
    /\ UNCHANGED plan_presentations
    /\ UNCHANGED <<toolVars, pathVars, sumVars, histVars, sseVars>>

\* Lines 454-463: a response with tool calls.
DecideToolCalls ==
    /\ pc = "decide"
    /\ tool_calls_to_process # <<>>
    /\ IF /\ is_revised_plan(accumulated_content, in_planning_phase)
          /\ require_plan_approval
          /\ ~suppress_display
          /\ ~in_planning_phase
       THEN /\ pc' = "revised_approval"
            \* line 469: the header of the revised plan
            /\ displayed' = Shown(TRUE)
            /\ appended' = Appended(TRUE, "notice")
            /\ UNCHANGED <<tool_iteration, messages, plan_loop_count, tool_results,
                           executed, outcome, plan_presentations>>
       ELSE /\ BeginToolRound
            \* line 492: the iteration header
            /\ displayed' = Shown(Displays(suppress_display))
            /\ appended' = Appended(Displays(suppress_display), "notice")
    /\ UNCHANGED <<Config, plan_file, in_planning_phase, accumulated_content,
                   tool_calls_to_process, approval, running, requests>>
    /\ UNCHANGED <<toolVars, pathVars, sumVars, histVars, sseVars>>

\* Lines 476-485: the user's answer to "Approve revised plan?".
RevisedPlanApproval ==
    /\ pc = "revised_approval"
    /\ \E a \in Answers :
        /\ approval' = a
        /\ IF ~IsYes(a)
           THEN /\ Return("revised_cancelled")
                /\ UNCHANGED <<tool_iteration, messages, plan_loop_count, tool_results,
                               executed, plan_presentations>>
           ELSE BeginToolRound
    \* lines 480, 485: the answer is acknowledged on the display
    /\ displayed' = Shown(TRUE)
    /\ appended' = Appended(TRUE, "notice")
    /\ UNCHANGED <<Config, plan_file, in_planning_phase, accumulated_content,
                   tool_calls_to_process, running, requests>>
    /\ UNCHANGED <<toolVars, pathVars, sumVars, histVars, sseVars>>

\* Lines 523-532: the loop over the batch hands the next call to execute_tool.
ToolStart ==
    /\ pc = "exec"
    /\ running = 0
    /\ Len(executed) < Len(tool_calls_to_process)
    /\ running' = tool_calls_to_process[Len(executed) + 1]
    /\ executed' = Append(executed, tool_calls_to_process[Len(executed) + 1])
    /\ UNCHANGED <<displayed, appended>>
    /\ UNCHANGED <<Config, pc, plan_file, messages, tool_iteration, in_planning_phase,
                   plan_loop_count, accumulated_content, tool_calls_to_process,
                   tool_results, approval, requests, outcome>>
    /\ UNCHANGED plan_presentations
    /\ UNCHANGED <<toolVars, pathVars, sumVars, histVars, sseVars>>

\* Lines 532-548: execute_tool returns its string.
ToolReturn ==
    /\ pc = "exec"
    /\ running # 0
    /\ tool_results' = Append(tool_results, running)
    /\ running' = 0
    \* lines 543-548: the result is shown
    /\ displayed' = Shown(Displays(suppress_display))
    /\ appended' = Appended(Displays(suppress_display), "notice")
    /\ UNCHANGED <<Config, pc, plan_file, messages, tool_iteration, in_planning_phase,
                   plan_loop_count, accumulated_content, tool_calls_to_process,
                   executed, approval, requests, outcome>>
    /\ UNCHANGED plan_presentations
    /\ UNCHANGED <<toolVars, pathVars, sumVars, histVars, sseVars>>

\* execute_tool raises (check_tool_approval runs outside its try block, see
\* ExecuteTool below): the except clause of lines 598-603 ends the turn.
ToolRaises ==
    /\ pc = "exec"
    /\ running # 0
    /\ running' = 0
    /\ Return("exception")
    /\ UNCHANGED <<displayed, appended>>
    /\ UNCHANGED <<Config, plan_file, messages, tool_iteration, in_planning_phase,
                   plan_loop_count, accumulated_content, tool_calls_to_process,
                   tool_results, executed, approval, requests>>
    /\ UNCHANGED plan_presentations
    /\ UNCHANGED <<toolVars, pathVars, sumVars, histVars, sseVars>>

\* Lines 550-596, then back to the loop head.
AppendResults ==
    /\ pc = "exec"
    /\ running = 0
    /\ Len(executed) = Len(tool_calls_to_process)
    /\ messages' = AppendToolResults(messages, tool_results)
    /\ LoopHead(tool_iteration)
    /\ UNCHANGED <<displayed, appended>>
    /\ UNCHANGED <<Config, plan_file, tool_iteration, in_planning_phase, plan_loop_count,
                   accumulated_content, tool_calls_to_process, tool_results, executed,
                   approval, running, requests>>
    /\ UNCHANGED plan_presentations
    /\ UNCHANGED <<toolVars, pathVars, sumVars, histVars, sseVars>>

TurnNext ==
    \/ Start
    \/ StreamChat
    \/ StreamRaises
    \/ DecideNoToolCalls
    \/ PlanApproval
    \/ DecideToolCalls
    \/ RevisedPlanApproval
    \/ ToolStart
    \/ ToolReturn
    \/ ToolRaises
    \/ AppendResults


(***************************************************************************)
(* validate_file_path (tools.py). A path is a flag (absolute or relative)  *)
(* and its components; the file system holds the project root and one      *)
(* symbolic link inside it that points at a system directory.              *)
(***************************************************************************)
Segments == {"..", ".", "etc", "lib", "home", "proj", "link", "f"}

Path(abs, segs) == [abs |-> abs, segs |-> segs]

Paths ==
    { Path(a, s) : a \in BOOLEAN,
                   s \in UNION { [1..n -> Segments] : n \in 1..MaxPathLen } }

\* os.getcwd(): the project root.
cwd == <<"home", "proj">>

\* The symbolic link /home/proj/link -> /etc.
SymlinkAt == <<"home", "proj", "link">>
SymlinkTarget == <<"etc">>

\* posixpath.normpath on the components: "." is dropped, ".." pops the
\* component before it, is dropped at the root of an absolute path and is kept
\* at the head of a relative one.
RECURSIVE NormComps(_, _, _)
NormComps(abs, new, rest) ==
    IF rest = <<>> THEN new
    ELSE LET comp == Head(rest) IN
         IF comp = "." THEN NormComps(abs, new, Tail(rest))
         ELSE IF \/ comp # ".."
                 \/ ~abs /\ new = <<>>
                 \/ new # <<>> /\ new[Len(new)] = ".."
         THEN NormComps(abs, Append(new, comp), Tail(rest))
         ELSE IF new # <<>>
         THEN NormComps(abs, SubSeq(new, 1, Len(new) - 1), Tail(rest))
         ELSE NormComps(abs, new, Tail(rest))

normpath(p) == Path(p.abs, NormComps(p.abs, <<>>, p.segs))

\* os.path.abspath: normpath(join(cwd, path)).
abspath(p) == IF p.abs THEN normpath(p) ELSE normpath(Path(TRUE, cwd \o p.segs))

\* os.path.realpath of an absolute, normalised path: the link is followed.
RECURSIVE Resolve(_, _)
Resolve(done, rest) ==
    IF rest = <<>> THEN done
    ELSE LET cur == Append(done, Head(rest)) IN
         Resolve(IF cur = SymlinkAt THEN SymlinkTarget ELSE cur, Tail(rest))

realpath(p) == Path(TRUE, Resolve(<<>>, p.segs))

\* blocked_patterns: r"^/etc/" and its like need a component below the
\* directory, r"^/lib" and its like match the directory itself as well.
BlockedBelow == {"etc", "sys", "proc", "dev", "root", "boot", "bin", "sbin"}
BlockedPrefix == {"lib"}

MatchesBlockedPattern(real) ==
    /\ Len(real.segs) >= 1
    /\ \/ real.segs[1] \in BlockedBelow /\ Len(real.segs) >= 2
       \/ real.segs[1] \in BlockedPrefix

\* ".." in os.path.normpath(file_path).split(os.sep)
HasTraversal(p) == \E i \in 1..Len(normpath(p).segs) : normpath(p).segs[i] = ".."

\* os.path.commonpath([cwd, real_path]) == cwd
IsWithinProject(real) ==
    /\ Len(real.segs) >= Len(cwd)
    /\ SubSeq(real.segs, 1, Len(cwd)) = cwd

\* What vim.eval("confirm(...)") may give: a number as a string, an empty
\* string, something that is no number, or an exception ("raise").
ConfirmAnswers == {"1", "2", "0", "", "x", "raise"}

\* The prompt with an empty answer defaulting to Yes.
ConfirmAllowsEmptyIsYes(answer) ==
    IF answer = "raise" \/ answer = "x" THEN FALSE
    ELSE (IF answer = "" THEN "1" ELSE answer) = "1"

\* Lines 410-450: the prompt for a path outside the project. int() of a
\* non-number raises, and every exception denies.
ConfirmAllows(answer) ==
    IF answer = "raise" \/ answer = "x" THEN FALSE
    ELSE (IF answer = "" THEN "2" ELSE answer) = "1"

VResult(valid, prompted, reason) ==
    [valid |-> valid, prompted |-> prompted, reason |-> reason]

\* validate_file_path(file_path): (is_valid, error_message), and whether the
\* user was prompted.
validate_file_path(p, answer) ==
    LET real == realpath(abspath(p)) IN
    IF MatchesBlockedPattern(real) THEN VResult(FALSE, FALSE, "system path")
    ELSE IF HasTraversal(p) THEN VResult(FALSE, FALSE, "traversal")
    ELSE IF IsWithinProject(real) THEN VResult(TRUE, FALSE, "within project")
    ELSE IF ConfirmAllows(answer) THEN VResult(TRUE, TRUE, "approved by user")
    ELSE VResult(FALSE, TRUE, "denied")

NoVCall == [path |-> Path(FALSE, <<>>), answer |-> "", res |-> VResult(FALSE, FALSE, "none")]

\* One call of validate_file_path.
ValidatePath ==
    /\ vcall = NoVCall
    /\ \E p \in Paths, a \in ConfirmAnswers :
        LET res == validate_file_path(p, a) IN
        vcall' = [path |-> p, answer |-> IF res.prompted THEN a ELSE "", res |-> res]
    /\ UNCHANGED <<turnVars, toolVars, sumVars, histVars, sseVars>>

\* The caller takes the pair validate_file_path returned and goes on.
PathResultTaken ==
    /\ vcall # NoVCall
    /\ vcall' = NoVCall
    /\ UNCHANGED <<turnVars, toolVars, sumVars, histVars, sseVars>>

(***************************************************************************)
(* get_config (utils.py), the Approval Gate and execute_tool (tools.py).   *)
(***************************************************************************)
\* Values of a configuration variable; "" is unset or empty.
ConfigValues == {"", "0", "1"}

CfgResult(raised, value) == [raised |-> raised, value |-> value]

\* get_config(name, default): the new name wins; with only the old name set,
\* line 55 calls debug_log(..., force=True), which debug_log(msg) does not
\* accept: TypeError, which `except vim.error` does not catch.
get_config(new_val, old_val, default) ==
    IF new_val # "" THEN CfgResult(FALSE, new_val)
    ELSE IF old_val # "" THEN CfgResult(TRUE, "")
    ELSE CfgResult(FALSE, default)

\* The tools of the dispatcher, by what they do with their path argument.
ValidatingTools == {"create_file", "edit_file", "edit_file_lines"}
UnvalidatedPathTools == {"list_directory", "find_in_file", "read_file", "open_file",
                         "git_diff", "git_log", "git_add", "git_reset"}
NoPathTools == {"get_working_directory", "find_file_in_project", "git_status",
                "git_show", "git_branch", "git_commit"}
KnownTools == ValidatingTools \cup UnvalidatedPathTools \cup NoPathTools

\* The tool names the model calls execute_tool with.
ToolNames == {"read_file", "create_file", "git_commit", "no_such_tool"}

\* The paths the model calls execute_tool with: inside the project, a system
\* path, outside the project, climbing out of the project.
ToolPaths == { Path(FALSE, <<"f">>), Path(TRUE, <<"etc", "f">>),
               Path(TRUE, <<"home", "f">>), Path(FALSE, <<"..", "f">>) }

\* What vim.eval("inputlist(...)") may give.
InputlistAnswers == {"1", "2", "3", "0", "", "x", "raise"}

\* How the body of a tool may end: normally, with an exception, or with
\* subprocess.TimeoutExpired.
BodyOutcomes == {"ok", "error", "timeout"}

GateStatus(gate, tool) == gate[tool]

Approval(raised, approved, prompted, msg, gate) ==
    [raised |-> raised, approved |-> approved, prompted |-> prompted, msg |-> msg,
     gate |-> gate]

\* The prompt with an empty answer taken as "Allow Once".
PromptForToolEmptyAllows(gate, tool, answer) ==
    IF answer = "raise" \/ answer = "x"
    THEN Approval(FALSE, FALSE, TRUE, "Tool approval failed", gate)
    ELSE IF answer = "1" \/ answer = ""
    THEN Approval(FALSE, TRUE, TRUE, "", gate)
    ELSE IF answer = "2"
    THEN Approval(FALSE, TRUE, TRUE, "", [gate EXCEPT ![tool] = "always"])
    ELSE Approval(FALSE, FALSE, TRUE, "denied by user", [gate EXCEPT ![tool] = "denied"])

\* Lines 498-541: the prompt on the first use of a tool.
PromptForTool(gate, tool, answer) ==
    IF answer = "raise" \/ answer = "x"
    THEN Approval(FALSE, FALSE, TRUE, "Tool approval failed", gate)
    ELSE LET result == IF answer = "" THEN "0" ELSE answer IN
         IF result = "1" THEN Approval(FALSE, TRUE, TRUE, "", gate)
         ELSE IF result = "2"
         THEN Approval(FALSE, TRUE, TRUE, "", [gate EXCEPT ![tool] = "always"])
         ELSE Approval(FALSE, FALSE, TRUE, "denied by user",
                       [gate EXCEPT ![tool] = "denied"])

\* check_tool_approval(tool_name, arguments), with the gate and the two
\* configuration variables it reads.
check_tool_approval(gate, new_val, old_val, tool, answer) ==
    LET require_approval == get_config(new_val, old_val, "1") IN
    IF require_approval.raised THEN Approval(TRUE, FALSE, FALSE, "", gate)
    ELSE IF require_approval.value = "0" THEN Approval(FALSE, TRUE, FALSE, "", gate)
    ELSE IF GateStatus(gate, tool) = "denied"
    THEN Approval(FALSE, FALSE, FALSE, "was denied by user", gate)
    ELSE IF GateStatus(gate, tool) # "unset" THEN Approval(FALSE, TRUE, FALSE, "", gate)
    ELSE PromptForTool(gate, tool, answer)

\* clear_tool_approvals()
EmptyGate == [t \in ToolNames |-> "unset"]

\* Whether the dispatcher validates the path argument of a tool before its
\* body runs (lines 721, 883, 923).
ValidatesPath(tool) == tool \in ValidatingTools

\* A call of execute_tool, as seen from outside.
\*   raised:     the call raised instead of returning a string
\*   text:       the kind of string returned
\*   prompted:   the tool prompt was shown;  answer: what the user gave
\*   approved:   what check_tool_approval returned
\*   validated:  validate_file_path was called;  vres: what it returned
\*   body:       how the tool's underlying operation ended, "none" if it did not run
\*   touched:    the operation was handed the path argument
Call(op, tool, path, before, chk, answer, validated, vres, vanswer, body, text) ==
    [op |-> op, tool |-> tool, path |-> path, before |-> before,
     raised |-> chk.raised, approved |-> chk.approved, prompted |-> chk.prompted,
     answer |-> answer, validated |-> validated, vres |-> vres, vanswer |-> vanswer,
     body |-> body, touched |-> body # "none" /\ tool \notin NoPathTools /\ tool \in KnownTools,
     text |-> text]

NoVResult == VResult(FALSE, FALSE, "none")
NoPath == Path(FALSE, <<>>)
NoApproval == Approval(FALSE, FALSE, FALSE, "", EmptyGate)

NoCall ==
    Call("none", "", NoPath, "unset", NoApproval, "", FALSE, NoVResult, "", "none", "")

\* execute_tool(tool_name, arguments): the record of the call. `answer` is the
\* user's answer to the tool prompt, `vanswer` to the path prompt, `body` the
\* way the tool's operation ends; each is recorded only if it was used.
execute_tool(gate, new_val, old_val, tool, path, answer, vanswer, body) ==
    LET chk    == check_tool_approval(gate, new_val, old_val, tool, answer)
        before == GateStatus(gate, tool)
        ans    == IF chk.prompted THEN answer ELSE ""
        arg    == IF tool \in NoPathTools \/ tool \notin KnownTools THEN NoPath ELSE path
    IN
    IF chk.raised
    THEN Call("execute_tool", tool, arg, before, chk, ans, FALSE, NoVResult, "", "none", "")
    ELSE IF ~chk.approved
    THEN Call("execute_tool", tool, arg, before, chk, ans, FALSE, NoVResult, "", "none",
              IF chk.msg = "Tool approval failed"
              THEN "Tool execution blocked: Tool approval failed"
              ELSE "Tool execution blocked: denied by user")
    ELSE IF tool \notin KnownTools
    THEN Call("execute_tool", tool, arg, before, chk, ans, FALSE, NoVResult, "", "none",
              "Unknown tool")
    ELSE IF ValidatesPath(tool)
    THEN LET vres == validate_file_path(path, vanswer)
             vans == IF vres.prompted THEN vanswer ELSE ""
         IN
         IF ~vres.valid
         THEN Call("execute_tool", tool, arg, before, chk, ans, TRUE, vres, vans, "none",
                   "Security: denied")
         ELSE Call("execute_tool", tool, arg, before, chk, ans, TRUE, vres, vans, body,
                   IF body = "ok" THEN "Success" ELSE "Error")
    ELSE Call("execute_tool", tool, arg, before, chk, ans, FALSE, NoVResult, "", body,
              CASE body = "ok"      -> "Success"
                [] body = "timeout" -> "Tool execution timed out"
                [] OTHER            -> "Error")

\* One call of execute_tool by the orchestrator.
ExecuteTool ==
    /\ last_call = NoCall
    /\ \E tool \in ToolNames, path \in ToolPaths, answer \in InputlistAnswers,
          vanswer \in ConfirmAnswers, body \in BodyOutcomes :
        /\ last_call' = execute_tool(approved_tools, cfg_new, cfg_old, tool, path,
                                     answer, vanswer, body)
        /\ approved_tools' =
               check_tool_approval(approved_tools, cfg_new, cfg_old, tool, answer).gate
    /\ UNCHANGED <<cfg_new, cfg_old>>
    /\ UNCHANGED <<turnVars, pathVars, sumVars, histVars, sseVars>>

\* The caller takes the string execute_tool returned (or the exception it
\* raised) and goes on.
ToolResultTaken ==
    /\ last_call # NoCall
    /\ last_call' = NoCall
    /\ UNCHANGED <<approved_tools, cfg_new, cfg_old>>
    /\ UNCHANGED <<turnVars, pathVars, sumVars, histVars, sseVars>>

\* clear_tool_approvals()
ClearToolApprovals ==
    /\ last_call = NoCall
    /\ approved_tools' = EmptyGate
    /\ UNCHANGED last_call
    /\ UNCHANGED <<cfg_new, cfg_old>>
    /\ UNCHANGED <<turnVars, pathVars, sumVars, histVars, sseVars>>

\* The user sets or unsets g:llm_agent_require_tool_approval or
\* g:chat_gpt_require_tool_approval.
SetConfig ==
    /\ \E n \in ConfigValues, o \in ConfigValues :
        /\ cfg_new' = n
        /\ cfg_old' = o
    /\ last_call = NoCall
    /\ UNCHANGED <<approved_tools, last_call>>
    /\ UNCHANGED <<turnVars, pathVars, sumVars, histVars, sseVars>>

(***************************************************************************)
(* The conversation summary: get_summary_cutoff and                        *)
(* generate_conversation_summary (summary.py), the summary.md branch of    *)
(* create_file (tools.py), the read of the cutoff by chat_gpt (core.py).   *)
(* summary.md is a sequence of lines; a line is a tag and, for a           *)
(* cutoff_byte line, the digits written after "cutoff_byte:".              *)
(***************************************************************************)
\* max_compaction_total = 204800
max_compaction_total == 204800

\* str(n) of a number n >= 0, as its decimal digits.
RECURSIVE Digits(_)
Digits(n) == IF n < 10 THEN <<n>> ELSE Append(Digits(n \div 10), n % 10)

\* int(match.group(1)) of the digits matched by \d+.
RECURSIVE ParseDigits(_)
ParseDigits(ds) ==
    IF ds = <<>> THEN 0
    ELSE 10 * ParseDigits(SubSeq(ds, 1, Len(ds) - 1)) + ds[Len(ds)]

Line(tag, digits) == [tag |-> tag, digits |-> digits]

NoFile == [exists |-> FALSE, lines |-> <<>>]
File(lines) == [exists |-> TRUE, lines |-> lines]

\* The metadata generate_conversation_summary puts before the summary text.
SummaryHeader(new_cutoff) ==
    << Line("<!-- Summary generated at -->", <<>>),
       Line("<!-- cutoff_byte -->", Digits(new_cutoff)),
       Line("", <<>>) >>

\* The metadata create_file puts before the content of summary.md.
ToolHeader(new_cutoff) ==
    << Line("SUMMARY_METADATA", <<>>),
       Line("cutoff_byte", Digits(new_cutoff)),
       Line("last_updated", <<>>),
       Line("-->", <<>>),
       Line("", <<>>) >>

\* str.strip() of a text given as lines: blank lines at both ends go.
RECURSIVE StripLines(_)
StripLines(lines) ==
    IF lines # <<>> /\ Head(lines).tag = "" THEN StripLines(Tail(lines))
    ELSE IF lines # <<>> /\ lines[Len(lines)].tag = ""
    THEN StripLines(SubSeq(lines, 1, Len(lines) - 1))
    ELSE lines

\* The lines that contain "cutoff_byte:": a bare line, as create_file writes
\* it inside its comment, and a one-line comment, as summary.py writes it.
CutoffTags == {"cutoff_byte", "<!-- cutoff_byte -->"}

\* re.search(r"cutoff_byte:\s*(\d+)", ...) over the first `limit` lines: the
\* first line that has "cutoff_byte:" followed by digits; 0 if there is none.
RECURSIVE FirstCutoff(_, _)
FirstCutoff(lines, limit) ==
    IF lines = <<>> \/ limit = 0 THEN 0
    ELSE IF Head(lines).tag \in CutoffTags /\ Head(lines).digits # <<>>
    THEN ParseDigits(Head(lines).digits)
    ELSE FirstCutoff(Tail(lines), limit - 1)

\* A get_summary_cutoff that looks at the first line only.
get_summary_cutoffFirstLine(file) ==
    IF ~file.exists THEN 0 ELSE FirstCutoff(file.lines, 1)

\* get_summary_cutoff(project_dir): the first 10 lines are searched.
get_summary_cutoff(file) ==
    IF ~file.exists THEN 0 ELSE FirstCutoff(file.lines, 10)

\* summary_cutoff_byte of chat_gpt: the first match in the whole file.
summary_cutoff_byte(file) ==
    IF ~file.exists THEN 0 ELSE FirstCutoff(StripLines(file.lines), Len(file.lines))

\* Values of the recent_history_size configuration; "" is unset or empty.
WindowValues == {"", "10000", "100000"}

\* int(...) of a configuration value.
IntOf(str) ==
    CASE str = "10000"  -> 10000
      [] str = "30480"  -> 30480
      [] str = "100000" -> 100000

Max(a, b) == IF a >= b THEN a ELSE b
Min(a, b) == IF a <= b THEN a ELSE b

\* What the model may return as the summary text; <<>> is an empty response,
\* and a summary may itself quote a "cutoff_byte:" line.
SummaryTexts ==
    { <<>>,
      << Line("text", <<>>) >>,
      << Line("## Topic A", <<>>), Line("text", <<>>) >>,
      << Line("## Topic A", <<>>), Line("## Topic B", <<>>) >>,
      << Line("", <<>>), Line("text", <<>>), Line("cutoff_byte", <<7>>), Line("", <<>>) >> }

\* How the provider call of a summary pass may end.
\* "read_error": reading history.txt fails (lines 154-170);
\* "provider_error", "messages_error", "stream_error": lines 222-267.
ProviderOutcomes == {"ok", "read_error", "provider_error", "messages_error", "stream_error"}

\* A write of summary.md, or an attempt at one, as seen from outside.
\*   op:     "summarize" or "create_file"
\*   raised: the call raised
\*   old:    the cutoff recorded before the call;  new: the one it computed
\*   size, window: history size and recent window the call worked with
\*   start, count: the byte range of history.txt it read (count 0: none)
\*   wrote:  summary.md was written;  file: summary.md after the call
\*   how:    the way the call ended: "ok", or the return or raise it took
Pass(op, raised, old, new, size, window, start, count, wrote, file, how) ==
    [op |-> op, raised |-> raised, old |-> old, new |-> new, size |-> size,
     window |-> window, start |-> start, count |-> count, wrote |-> wrote, file |-> file,
     how |-> how]

NoPass == Pass("none", FALSE, 0, 0, 0, 0, 0, 0, FALSE, NoFile, "none")

\* The byte range read by lines 154-170: (start, count) for the recorded
\* cutoff `old`, the computed cutoff `new` and the file size.
ReadRange(old, new, size) ==
    LET bytes   == new - old
        capped  == bytes > max_compaction_total
        old_cut == IF capped THEN new - max_compaction_total ELSE old
        to_sum  == IF capped THEN max_compaction_total ELSE bytes
    IN
    IF to_sum > 0
    THEN [old |-> old_cut, start |-> old_cut,
          count |-> Min(to_sum, Max(0, size - old_cut))]
    ELSE [old |-> old_cut, start |-> 0, count |-> Min(new, size)]

\* generate_conversation_summary() without the test of lines 269-271 for an
\* empty response.
generate_conversation_summaryWritesEmpty(hist, file, new_val, old_val, outcome_, text) ==
    LET old == get_summary_cutoff(file)
        cfg == get_config(new_val, old_val, "30480")
    IN
    IF ~hist.exists
    THEN Pass("summarize", FALSE, old, 0, 0, 0, 0, 0, FALSE, file, "no_history")
    ELSE IF cfg.raised
    THEN Pass("summarize", TRUE, old, 0, hist.size, 0, 0, 0, FALSE, file, "config_error")
    ELSE LET recent_window == IntOf(cfg.value)
             new_cutoff    == Max(0, hist.size - recent_window)
             rd            == ReadRange(old, new_cutoff, hist.size)
         IN
         IF outcome_ = "read_error"
         THEN Pass("summarize", FALSE, old, new_cutoff, hist.size, recent_window,
                   0, 0, FALSE, file, outcome_)
         ELSE IF outcome_ # "ok"
         THEN Pass("summarize", FALSE, old, new_cutoff, hist.size, recent_window,
                   rd.start, rd.count, FALSE, file, outcome_)
         ELSE IF FALSE
         THEN Pass("summarize", FALSE, old, new_cutoff, hist.size, recent_window,
                   rd.start, rd.count, FALSE, file, "empty")
         ELSE Pass("summarize", FALSE, old, new_cutoff, hist.size, recent_window,
                   rd.start, rd.count, TRUE,
                   File(SummaryHeader(new_cutoff) \o StripLines(text)),
                   IF text = <<>> THEN "empty" ELSE "ok")

\* generate_conversation_summary(): the record of one call.
generate_conversation_summary(hist, file, new_val, old_val, outcome_, text) ==
    LET old == get_summary_cutoff(file)
        cfg == get_config(new_val, old_val, "30480")
    IN
    IF ~hist.exists
    THEN Pass("summarize", FALSE, old, 0, 0, 0, 0, 0, FALSE, file, "no_history")
    ELSE IF cfg.raised
    THEN Pass("summarize", TRUE, old, 0, hist.size, 0, 0, 0, FALSE, file, "config_error")
    ELSE LET recent_window == IntOf(cfg.value)
             new_cutoff    == Max(0, hist.size - recent_window)
             rd            == ReadRange(old, new_cutoff, hist.size)
         IN
         IF outcome_ = "read_error"
         THEN Pass("summarize", FALSE, old, new_cutoff, hist.size, recent_window,
                   0, 0, FALSE, file, outcome_)
         ELSE IF outcome_ # "ok"
         THEN Pass("summarize", FALSE, old, new_cutoff, hist.size, recent_window,
                   rd.start, rd.count, FALSE, file, outcome_)
         ELSE IF text = <<>>
         THEN Pass("summarize", FALSE, old, new_cutoff, hist.size, recent_window,
                   rd.start, rd.count, FALSE, file, "empty")
         ELSE Pass("summarize", FALSE, old, new_cutoff, hist.size, recent_window,
                   rd.start, rd.count, TRUE,
                   File(SummaryHeader(new_cutoff) \o StripLines(text)), "ok")

\* The create_file branch of execute_tool for a path ending in
\* .vim-llm-agent/summary.md or .vim-chatgpt/summary.md, the tool approved and
\* the path accepted.
create_summary_file(hist, file, new_val, old_val, overwrite, text) ==
    LET old == IF file.exists THEN FirstCutoff(file.lines, Len(file.lines)) ELSE 0
        cfg == get_config(new_val, old_val, "30480")
    IN
    IF file.exists /\ ~overwrite
    THEN Pass("create_file", FALSE, old, 0, 0, 0, 0, 0, FALSE, file, "exists")
    ELSE IF cfg.raised
    THEN Pass("create_file", FALSE, old, 0, 0, 0, 0, 0, FALSE, file, "config_error")
    ELSE LET recent_window == IntOf(cfg.value)
             new_cutoff    == IF hist.exists THEN Max(0, hist.size - recent_window) ELSE 0
         IN
         Pass("create_file", FALSE, old, new_cutoff, hist.size, recent_window, 0, 0, TRUE,
              File(ToolHeader(new_cutoff) \o text), "ok")

\* The lines that open a comment ("<!--") and those that close one ("-->").
OpensComment(line) ==
    line.tag \in {"<!-- Summary generated at -->", "<!-- cutoff_byte -->", "SUMMARY_METADATA"}
ClosesComment(line) ==
    line.tag \in {"<!-- Summary generated at -->", "<!-- cutoff_byte -->", "-->"}

RECURSIVE DropBlank(_)
DropBlank(lines) ==
    IF lines # <<>> /\ Head(lines).tag = "" THEN DropBlank(Tail(lines)) ELSE lines

\* re.sub(r"^<!--.*?-->\n+", "", old_summary, flags=re.DOTALL): a comment at the
\* very start of the text goes, up to its first "-->" that a newline follows,
\* with the newlines after it; nothing else does.
strip_metadata(lines) ==
    LET closing == { i \in 1..(Len(lines) - 1) : ClosesComment(lines[i]) }
    IN
    IF lines = <<>> \/ ~OpensComment(lines[1]) \/ closing = {} THEN lines
    ELSE LET i == CHOOSE j \in closing : \A k \in closing : j <= k
         IN DropBlank(SubSeq(lines, i + 1, Len(lines)))

\* What the byte range read from history.txt may hold, as the tokens
\* extract_plan_from_conversation looks for.
Conversations ==
    { <<"text">>,
      <<"text", "GOAL:", "PLAN:", "1. ", "text">>,
      <<"text", "GOAL:", "PLAN:", "1. ", "TOOLS REQUIRED:", "ESTIMATED STEPS:", "text">> }

FirstIndex(text, needle, from) ==
    IF \E i \in from..Len(text) : text[i] = needle
    THEN CHOOSE i \in from..Len(text) :
            text[i] = needle /\ \A j \in from..Len(text) : text[j] = needle => i <= j
    ELSE 0

\* extract_plan_from_conversation(conversation_text): the text from the first
\* GOAL: that PLAN:, TOOLS REQUIRED: and ESTIMATED STEPS: follow in this order,
\* to the end of the paragraph; <<>> stands for None.
extract_plan_from_conversation(text) ==
    LET g == FirstIndex(text, "GOAL:", 1)
        q == IF g = 0 THEN 0 ELSE FirstIndex(text, "PLAN:", g + 1)
        t == IF q = 0 THEN 0 ELSE FirstIndex(text, "TOOLS REQUIRED:", q + 1)
        e == IF t = 0 THEN 0 ELSE FirstIndex(text, "ESTIMATED STEPS:", t + 1)
    IN IF e = 0 THEN <<>> ELSE SubSeq(text, g, Len(text))

\* The extraction run whether or not plan.md exists.
plan_after_extractionAlways(file, conversation) ==
    IF extract_plan_from_conversation(conversation) # <<>>
    THEN save_plan(file, extract_plan_from_conversation(conversation))
    ELSE file

\* Lines 172-179: a plan found in the range read is saved when plan.md does
\* not exist.
plan_after_extraction(file, conversation) ==
    IF file.exists THEN file
    ELSE IF extract_plan_from_conversation(conversation) # <<>>
    THEN save_plan(file, extract_plan_from_conversation(conversation))
    ELSE file

\* The prompt of a summary pass, as seen from outside.
\*   sent:     the request reached the model
\*   mode:     "extend" (existing summary included) or "fresh"
\*   old_text: the lines of the existing summary included in the prompt
\*   conversation: the new conversation included in the prompt
\*   has_active_plan: plan.md existed when the format instructions were added
Prompt(sent, mode, old_text, conversation, has_active_plan) ==
    [sent |-> sent, mode |-> mode, old_text |-> old_text,
     conversation |-> conversation, has_active_plan |-> has_active_plan]

NoPrompt == Prompt(FALSE, "none", <<>>, <<>>, FALSE)

\* Lines 181-215 of generate_conversation_summary: old_cutoff is the cutoff
\* after the cap of lines 147-152, old_summary the text of summary.md.
summary_prompt(old_cutoff, file, new_conversation, plan, sent) ==
    IF old_cutoff > 0 /\ file.exists /\ file.lines # <<>>
    THEN Prompt(sent, "extend", strip_metadata(file.lines), new_conversation, plan.exists)
    ELSE Prompt(sent, "fresh", <<>>, new_conversation, plan.exists)

\* Sizes of one append to history.txt, in bytes.
AppendSizes == {10000, 250000}

\* save_to_history(content): history.txt grows by the length of content.
AppendHistory ==
    /\ last_pass = NoPass
    /\ appends < MaxAppends
    /\ appends' = appends + 1
    /\ \E n \in AppendSizes :
        history' = [exists |-> TRUE, size |-> history.size + n]
    /\ UNCHANGED <<summary, win_new, win_old, last_pass, prompt>>
    /\ UNCHANGED <<turnVars, toolVars, pathVars, histVars, sseVars>>

\* The user sets or unsets g:llm_agent_recent_history_size or
\* g:chat_gpt_recent_history_size.
SetWindow ==
    /\ last_pass = NoPass
    /\ \E n \in WindowValues, o \in WindowValues :
        /\ win_new' = n
        /\ win_old' = o
    /\ UNCHANGED <<history, summary, appends, last_pass, prompt>>
    /\ UNCHANGED <<turnVars, toolVars, pathVars, histVars, sseVars>>

\* One call of generate_conversation_summary.
Summarize ==
    /\ last_pass = NoPass
    /\ \E o \in ProviderOutcomes, text \in SummaryTexts, conv \in Conversations :
        LET pass   == generate_conversation_summary(history, summary, win_new, win_old,
                                                    o, text)
            \* lines 172-215 are reached: the history was read
            built  == history.exists /\ ~pass.raised /\ o # "read_error"
            \* nothing is found in a range of no bytes
            found  == IF pass.count > 0 THEN conv ELSE <<>>
            plan   == IF built THEN plan_after_extraction(plan_file, found) ELSE plan_file
        IN
        /\ last_pass' = pass
        /\ summary' = pass.file
        /\ plan_file' = plan
        /\ prompt' = IF built
                     THEN summary_prompt(ReadRange(pass.old, pass.new, pass.size).old,
                                         summary, found, plan,
                                         o \notin {"provider_error", "messages_error"})
                     ELSE NoPrompt
    /\ UNCHANGED <<history, appends, win_new, win_old>>
    /\ UNCHANGED <<turnVarsButPlan, toolVars, pathVars, histVars, sseVars>>

\* One create_file call on the summary path.
CreateSummaryFile ==
    /\ last_pass = NoPass
    /\ \E overwrite \in BOOLEAN, text \in SummaryTexts :
        /\ last_pass' = create_summary_file(history, summary, win_new, win_old,
                                            overwrite, text)
        /\ summary' = create_summary_file(history, summary, win_new, win_old,
                                          overwrite, text).file
    /\ UNCHANGED <<history, appends, win_new, win_old, prompt>>
    /\ UNCHANGED <<turnVars, toolVars, pathVars, histVars, sseVars>>

\* The caller goes on after the call.
PassTaken ==
    /\ last_pass # NoPass
    /\ last_pass' = NoPass
    /\ prompt' = NoPrompt
    /\ UNCHANGED <<history, summary, appends, win_new, win_old>>
    /\ UNCHANGED <<turnVars, toolVars, pathVars, histVars, sseVars>>

\* No history, no summary, nothing configured.
SumIdle ==
    /\ history = [exists |-> FALSE, size |-> 0]
    /\ summary = NoFile
    /\ appends = 0
    /\ win_new = ""
    /\ win_old = ""
    /\ last_pass = NoPass
    /\ prompt = NoPrompt

(***************************************************************************)
(* Loading the history at the start of a turn (chat_gpt, lines 199-261).   *)
(* history.txt is a sequence of bytes: SEP stands for the separator        *)
(* "\n\n\x01>>>", ROLE for the role name with the ":\x01\n" that ends      *)
(* it, and a number k >= 1 for one byte of the content of the k-th message.*)
(***************************************************************************)
\* min_messages = 4
min_messages == 4

\* The separator "\n\n\x01>>>" as one byte of the file.
SEP == 0
\* The role name with its ":\x01\n", as one byte of the file.
ROLE == -1

\* The history.txt of a session whose messages have the content lengths lens.
RECURSIVE FileOf(_, _)
FileOf(lens, k) ==
    IF k > Len(lens) THEN <<>>
    ELSE <<SEP, ROLE>> \o [i \in 1..lens[k] |-> k] \o FileOf(lens, k + 1)

\* The history files of up to MaxMsgs messages of one or two bytes each.
HistoryFiles ==
    { FileOf(lens, 1) : lens \in UNION { [1..n -> {1, 2}] : n \in 0..MaxMsgs } }

\* token_limits.get(model, 100000) - max_tokens - len(prompt) -
\* len(system_message): what is left of the context for the history.
Budgets == {-3, 6, 9, 12, 100}

Reverse(seq) == [i \in 1..Len(seq) |-> seq[Len(seq) + 1 - i]]

\* str.split(sep): the pieces between the separators, in order.
RECURSIVE SplitAcc(_, _, _)
SplitAcc(bytes, piece, out) ==
    IF bytes = <<>> THEN Append(out, piece)
    ELSE IF Head(bytes) = SEP THEN SplitAcc(Tail(bytes), <<>>, Append(out, piece))
    ELSE SplitAcc(Tail(bytes), Append(piece, Head(bytes)), out)

split(bytes) == SplitAcc(bytes, <<>>, <<>>)

HasRole(piece) == \E i \in 1..Len(piece) : piece[i] = ROLE

\* line.split(":\x01\n", 1)[1]: what follows the first role marker.
ContentOf(piece) ==
    LET i == CHOOSE j \in 1..Len(piece) :
                 piece[j] = ROLE /\ \A k \in 1..(j - 1) : piece[k] # ROLE
    IN SubSeq(piece, i + 1, Len(piece))

\* Lines 217-229: the messages of the bytes read, newest first.
parsed_messages(bytes) ==
    LET pieces == SelectSeq(Reverse(split(bytes)), HasRole)
    IN [i \in 1..Len(pieces) |-> ContentOf(pieces[i])]

RECURSIVE SumLen(_)
SumLen(msgs) == IF msgs = <<>> THEN 0 ELSE Len(Head(msgs)) + SumLen(Tail(msgs))

\* The loop of lines 253-258 with `>=` for `>`.
RECURSIVE ExtendInclusive(_, _, _)
ExtendInclusive(hist, remaining_messages, token_count) ==
    IF remaining_messages = <<>> THEN hist
    ELSE IF token_count - Len(Head(remaining_messages)) >= 0
    THEN ExtendInclusive(<<Head(remaining_messages)>> \o hist, Tail(remaining_messages),
                         token_count - Len(Head(remaining_messages)))
    ELSE hist

\* Lines 253-258: older messages are put in front while the budget stays
\* positive.
RECURSIVE Extend(_, _, _)
Extend(hist, remaining_messages, token_count) ==
    IF remaining_messages = <<>> THEN hist
    ELSE IF token_count - Len(Head(remaining_messages)) > 0
    THEN Extend(<<Head(remaining_messages)>> \o hist, Tail(remaining_messages),
                token_count - Len(Head(remaining_messages)))
    ELSE hist

\* Lines 199-261: the history a turn starts with, in chronological order.
load_history(enabled, file, summary_cutoff, budget) ==
    IF ~enabled THEN <<>>
    ELSE LET bytes  == IF summary_cutoff > 0
                       THEN SubSeq(file, summary_cutoff + 1, Len(file))
                       ELSE file
             parsed == parsed_messages(bytes)
             first  == IF Len(parsed) >= min_messages
                       THEN Reverse(SubSeq(parsed, 1, min_messages))
                       ELSE Reverse(parsed)
             rest   == IF Len(parsed) >= min_messages
                       THEN SubSeq(parsed, min_messages + 1, Len(parsed))
                       ELSE <<>>
         IN Extend(first, rest, budget - SumLen(first))

Load(done, cutoff, budget, hist) ==
    [done |-> done, cutoff |-> cutoff, budget |-> budget, history |-> hist]

NoLoad == Load(FALSE, 0, 0, <<>>)

\* A turn loads the history, with the cutoff it read from summary.md.
LoadHistory ==
    /\ load = NoLoad
    /\ \E cutoff \in 0..(Len(history_txt) + 1), budget \in Budgets :
        load' = Load(TRUE, cutoff, budget,
                     load_history(session_enabled, history_txt, cutoff, budget))
    /\ UNCHANGED history_txt
    /\ UNCHANGED <<turnVars, toolVars, pathVars, sumVars, sseVars>>

\* The turn goes on with the loaded history.
LoadTaken ==
    /\ load # NoLoad
    /\ load' = NoLoad
    /\ UNCHANGED history_txt
    /\ UNCHANGED <<turnVars, toolVars, pathVars, sumVars, sseVars>>

\* No bytes in history.txt, no load in progress.
HistIdle ==
    /\ history_txt = <<>>
    /\ load = NoLoad

(***************************************************************************)
(* The provider adapters: OpenAIProvider.stream_chat and                   *)
(* AnthropicProvider.stream_chat (providers.py), which turn the lines of a *)
(* Server-Sent Events response into (content, finish_reason, tool_calls)   *)
(* events. The text of tool arguments is a sequence of the tokens "{",     *)
(* "k" (a member "k": 1), "}" and "\n" (whitespace).                       *)
(***************************************************************************)
\* The fragments of argument text one chunk may carry; <<>> is the empty
\* string, which is also what a chunk without the key contributes.
Fragments == { <<>>, <<"{">>, <<"}">>, <<"{", "k", "}">> }

NotWhitespace(token) == token # "\n"

\* json.loads(text) on texts of these tokens: {} and {"k": 1} parse, to the
\* set of their keys; whitespace around the tokens is ignored; anything else,
\* the empty text included, raises json.JSONDecodeError (ok = FALSE).
json_loads(text) ==
    LET t == SelectSeq(text, NotWhitespace)
    IN IF t = <<"{", "}">> THEN [ok |-> TRUE, value |-> {}]
       ELSE IF t = <<"{", "k", "}">> THEN [ok |-> TRUE, value |-> {"k"}]
       ELSE [ok |-> FALSE, value |-> {}]

\* An entry of tool_calls_accumulator or tool_use_blocks with its key; the
\* dict keeps its entries in the order in which the keys were inserted.
Entry(index, id, name, text) == [index |-> index, id |-> id, name |-> name, text |-> text]

\* `idx in d`
HasKey(d, idx) == \E i \in 1..Len(d) : d[i].index = idx
\* the place of d[idx] among the entries
KeyPos(d, idx) == CHOOSE i \in 1..Len(d) : d[i].index = idx

\* {'id': ..., 'name': ..., 'arguments': ...} as handed to chat_gpt
ToolCall(id, name, arguments) == [id |-> id, name |-> name, arguments |-> arguments]

\* The third component of a yielded event: None, or a list of tool calls.
TcNone == [none |-> TRUE, calls |-> <<>>]
TcList(calls) == [none |-> FALSE, calls |-> calls]

\* A yielded (content, finish_reason, tool_calls).
Event(content, finish_reason, tool_calls) ==
    [content |-> content, finish_reason |-> finish_reason, tool_calls |-> tool_calls]

\* An element of delta['tool_calls']: "-" for id and name says that the chunk
\* has no such key.
Heads == { <<"-", "-">>, <<"call_a", "read_file">> }
ToolCallChunks ==
    { [index |-> i, id |-> h[1], name |-> h[2], arguments |-> f] :
        i \in {0, 1}, h \in Heads, f \in Fragments }

\* Lines 178-193 with `+=` replaced by `=`: the last fragment wins.
AccumulateOverwrites(acc, tc) ==
    LET base == IF HasKey(acc, tc.index) THEN acc
                ELSE Append(acc, Entry(tc.index, "", "", <<>>))
        i    == KeyPos(base, tc.index)
        e    == base[i]
    IN [base EXCEPT ![i] = Entry(e.index,
                                 IF tc.id # "-" THEN tc.id ELSE e.id,
                                 IF tc.name # "-" THEN tc.name ELSE e.name,
                                 tc.arguments)]

\* Lines 178-193: one element of delta['tool_calls'] goes into the
\* accumulator under its index.
Accumulate(acc, tc) ==
    LET base == IF HasKey(acc, tc.index) THEN acc
                ELSE Append(acc, Entry(tc.index, "", "", <<>>))
        i    == KeyPos(base, tc.index)
        e    == base[i]
    IN [base EXCEPT ![i] = Entry(e.index,
                                 IF tc.id # "-" THEN tc.id ELSE e.id,
                                 IF tc.name # "-" THEN tc.name ELSE e.name,
                                 e.text \o tc.arguments)]

\* Lines 176-193: `for tool_call_chunk in delta['tool_calls']`.
RECURSIVE AccumulateAll(_, _)
AccumulateAll(acc, tcs) ==
    IF tcs = <<>> THEN acc
    ELSE AccumulateAll(Accumulate(acc, Head(tcs)), Tail(tcs))

\* Lines 201-212: the tool calls of the finish event.
RECURSIVE OpenAICalls(_)
OpenAICalls(acc) ==
    IF acc = <<>> THEN <<>>
    ELSE LET e == Head(acc)
             r == json_loads(e.text)
         IN (IF r.ok THEN <<ToolCall(e.id, e.name, r.value)>> ELSE <<>>)
            \o OpenAICalls(Tail(acc))

OpenAIToolCalls(acc) ==
    IF acc = <<>> THEN TcNone ELSE TcList(OpenAICalls(acc))

\* A line of the response as the loop body of lines 155-215 sees it:
\*   "skip":  an empty line, a line without 'data: ', data that is not JSON,
\*            a chunk without choices
\*   "done":  data: [DONE]
\*   "chunk": a chunk with its delta's content and tool_calls and the
\*            choice's finish_reason ("" when absent or null)
SseLine(kind, content, tool_calls, finish_reason) ==
    [kind |-> kind, content |-> content, tool_calls |-> tool_calls,
     finish_reason |-> finish_reason]

OpenAILines ==
    { SseLine("skip", <<>>, <<>>, ""), SseLine("done", <<>>, <<>>, "") }
    \cup { SseLine("chunk", c, <<>>, f) :
             c \in {<<>>, <<"text">>}, f \in {"", "stop", "tool_calls"} }
    \cup { SseLine("chunk", <<>>, <<tc>>, f) :
             tc \in ToolCallChunks, f \in {"", "tool_calls"} }
    \cup { SseLine("chunk", <<"text">>, <<tc1, tc2>>, "tool_calls") :
             tc1 \in {t \in ToolCallChunks : t.index = 0 /\ t.id # "-"},
             tc2 \in {t \in ToolCallChunks : t.index = 1 /\ t.id # "-"} }

\* What has come in for the tool calls: one record per element of
\* delta['tool_calls'] (OpenAI) or per tool_use block start and
\* input_json_delta (Anthropic), in arrival order.
Arrival(kind, index, id, name, text) ==
    [kind |-> kind, index |-> index, id |-> id, name |-> name, text |-> text]

OpenAIArrivals(tcs) ==
    [i \in 1..Len(tcs) |->
        Arrival("delta", tcs[i].index, tcs[i].id, tcs[i].name, tcs[i].arguments)]

\* requests.post and the status test of lines 145-150: a new generator with
\* an empty accumulator, or an exception.
OpenAIStreamChat ==
    /\ ~sse_open
    /\ \E status \in {200, 500} :
        sse_open' = (status = 200)
    /\ tool_calls_accumulator' = <<>>
    /\ arrived' = <<>>
    /\ yielded' = <<>>
    /\ UNCHANGED tool_use_blocks
    /\ UNCHANGED <<turnVars, toolVars, pathVars, sumVars, histVars>>

\* Lines 155-215: the loop body for one line of the response.
OpenAILine ==
    /\ sse_open
    /\ \E line \in OpenAILines :
        /\ Len(arrived) + Len(line.tool_calls) <= MaxFragments
        /\ sse_open' = (line.kind # "done")
        /\ tool_calls_accumulator' =
               AccumulateAll(tool_calls_accumulator, line.tool_calls)
        /\ arrived' = arrived \o OpenAIArrivals(line.tool_calls)
        /\ yielded' =
               (IF line.content # <<>>
                THEN <<Event(line.content, "", TcNone)>> ELSE <<>>)
               \o (IF line.finish_reason # ""
                   THEN <<Event(<<>>, line.finish_reason,
                                OpenAIToolCalls(tool_calls_accumulator'))>>
                   ELSE <<>>)
    /\ UNCHANGED tool_use_blocks
    /\ UNCHANGED <<turnVars, toolVars, pathVars, sumVars, histVars>>

\* ---- Anthropic ----
\* The partial_json of an input_json_delta.
PartialJsons == Fragments \cup { <<"\n">> }

\* The (id, name) of a tool_use block start.
BlockHeads == { <<"toolu_a", "read_file">>, <<"toolu_b", "git_status">> }

\* An event of the Anthropic stream as the loop body of lines 330-396 sees
\* it:
\*   "skip":  a line that is dropped, or an event the loop has no branch for
\*            (message_start, ping, content_block_stop), the start of a text
\*            block, a text_delta without text, a message_delta without
\*            stop_reason
\*   "done":  data: [DONE]
\*   "text_delta", "input_json_delta": a content_block_delta
\*   "tool_use": the content_block_start of a tool_use block
\*   "message_delta": a message_delta with a stop_reason
AnthropicEvent(kind, index, id, name, text, stop_reason) ==
    [kind |-> kind, index |-> index, id |-> id, name |-> name, text |-> text,
     stop_reason |-> stop_reason]

AnthropicEvents ==
    { AnthropicEvent("skip", 0, "", "", <<>>, ""),
      AnthropicEvent("done", 0, "", "", <<>>, ""),
      AnthropicEvent("text_delta", 0, "", "", <<"text">>, "") }
    \cup { AnthropicEvent("input_json_delta", i, "", "", f, "") :
             i \in {0, 1}, f \in PartialJsons }
    \cup { AnthropicEvent("tool_use", i, h[1], h[2], <<>>, "") :
             i \in {0, 1}, h \in BlockHeads }
    \cup { AnthropicEvent("message_delta", 0, "", "", <<>>, s) :
             s \in {"end_turn", "tool_use"} }

\* dict assignment d[idx] = value: a new key goes to the end, an existing key
\* keeps its place.
SetKey(d, e) ==
    IF HasKey(d, e.index) THEN [d EXCEPT ![KeyPos(d, e.index)] = e]
    ELSE Append(d, e)

\* Lines 350-355 without the fragments that came before: the last fragment
\* is the input.
AddPartialJsonOverwrites(blocks, idx, partial_json) ==
    LET base == IF HasKey(blocks, idx) THEN blocks
                ELSE Append(blocks, Entry(idx, "", "", <<>>))
        i    == KeyPos(base, idx)
    IN [base EXCEPT ![i].text = partial_json]

\* Lines 350-355: an input_json_delta for the block at idx.
AddPartialJson(blocks, idx, partial_json) ==
    LET base == IF HasKey(blocks, idx) THEN blocks
                ELSE Append(blocks, Entry(idx, "", "", <<>>))
        i    == KeyPos(base, idx)
    IN [base EXCEPT ![i].text = @ \o partial_json]

\* Lines 358-366: the start of a tool_use block at idx.
StartBlock(blocks, idx, id, name) == SetKey(blocks, Entry(idx, id, name, <<>>))

\* Lines 378-383: the arguments of a block; its input stripped, {} when that
\* is empty.
BlockArguments(input) ==
    IF Strip(input) = <<>> THEN [ok |-> TRUE, value |-> {}]
    ELSE json_loads(Strip(input))

\* Lines 374-393: the tool calls of the event that ends the message.
RECURSIVE AnthropicCalls(_)
AnthropicCalls(blocks) ==
    IF blocks = <<>> THEN <<>>
    ELSE LET e == Head(blocks)
             r == BlockArguments(e.text)
         IN (IF r.ok THEN <<ToolCall(e.id, e.name, r.value)>> ELSE <<>>)
            \o AnthropicCalls(Tail(blocks))

AnthropicToolCalls(blocks) ==
    IF blocks = <<>> THEN TcNone ELSE TcList(AnthropicCalls(blocks))

\* requests.post and the status test of lines 311-324.
AnthropicStreamChat ==
    /\ ~sse_open
    /\ \E status \in {200, 500} :
        sse_open' = (status = 200)
    /\ tool_use_blocks' = <<>>
    /\ arrived' = <<>>
    /\ yielded' = <<>>
    /\ UNCHANGED tool_calls_accumulator
    /\ UNCHANGED <<turnVars, toolVars, pathVars, sumVars, histVars>>

\* Lines 330-396: the loop body for one line of the response.
AnthropicLine ==
    /\ sse_open
    /\ \E ev \in AnthropicEvents :
        /\ ev.kind \in {"input_json_delta", "tool_use"} => Len(arrived) < MaxFragments
        /\ sse_open' = (ev.kind # "done")
        /\ tool_use_blocks' =
               CASE ev.kind = "input_json_delta" ->
                        AddPartialJson(tool_use_blocks, ev.index, ev.text)
                 [] ev.kind = "tool_use" ->
                        StartBlock(tool_use_blocks, ev.index, ev.id, ev.name)
                 [] OTHER -> tool_use_blocks
        /\ arrived' =
               CASE ev.kind = "input_json_delta" ->
                        Append(arrived, Arrival("delta", ev.index, "-", "-", ev.text))
                 [] ev.kind = "tool_use" ->
                        Append(arrived, Arrival("start", ev.index, ev.id, ev.name, <<>>))
                 [] OTHER -> arrived
        /\ yielded' =
               CASE ev.kind = "text_delta" -> <<Event(ev.text, "", TcNone)>>
                 [] ev.kind = "message_delta" ->
                        <<Event(<<>>, ev.stop_reason, AnthropicToolCalls(tool_use_blocks))>>
                 [] OTHER -> <<>>
    /\ UNCHANGED tool_calls_accumulator
    /\ UNCHANGED <<turnVars, toolVars, pathVars, sumVars, histVars>>

\* No request is being read.
SseIdle ==
    /\ sse_open = FALSE
    /\ tool_calls_accumulator = <<>>
    /\ tool_use_blocks = <<>>
    /\ arrived = <<>>
    /\ yielded = <<>>

(***************************************************************************)
(* Specifications.                                                         *)
(***************************************************************************)
\* No execute_tool call has been made: the Approval Gate is empty.
ToolIdle ==
    /\ approved_tools = EmptyGate
    /\ cfg_new = ""
    /\ cfg_old = ""
    /\ last_call = NoCall

\* No validate_file_path call has been made.
PathIdle == vcall = NoVCall

Init == TurnInit /\ ToolIdle /\ PathIdle /\ SumIdle /\ HistIdle /\ SseIdle
Next == TurnNext

\* One turn of chat_gpt.
Spec == Init /\ [][Next]_vars

\* chat_gpt is one sequential call: it keeps running until it returns.
FairSpec == Spec /\ WF_vars(Next)


\* The turn variables of a session in which chat_gpt is not running.
TurnIdleButPlan ==
    /\ pc = "idle"
    /\ provider_name = "openai"
    /\ enable_tools = TRUE
    /\ require_plan_approval = TRUE
    /\ suppress_display = FALSE
    /\ session_enabled = TRUE
    /\ messages = <<>>
    /\ tool_iteration = 0
    /\ in_planning_phase = FALSE
    /\ plan_loop_count = 0
    /\ accumulated_content = <<>>
    /\ tool_calls_to_process = <<>>
    /\ tool_results = <<>>
    /\ approval = "-"
    /\ running = 0
    /\ executed = <<>>
    /\ requests = 0
    /\ outcome = ""
    /\ plan_presentations = 0
    /\ displayed = FALSE
    /\ appended = {}

TurnIdle == TurnIdleButPlan /\ plan_file = NoPlan

\* The dispatcher and the Approval Gate over a session: calls of execute_tool,
\* clear_tool_approvals, and the user changing the configuration.
ToolInit ==
    /\ TurnIdle
    /\ PathIdle
    /\ SumIdle
    /\ HistIdle
    /\ SseIdle
    /\ approved_tools = EmptyGate
    /\ cfg_new \in ConfigValues
    /\ cfg_old \in ConfigValues
    /\ last_call = NoCall

ToolNext == ExecuteTool \/ ToolResultTaken \/ ClearToolApprovals \/ SetConfig

ToolSpec == ToolInit /\ [][ToolNext]_vars

\* validate_file_path applied to every path and every answer.
PathInit == TurnIdle /\ ToolIdle /\ PathIdle /\ SumIdle /\ HistIdle /\ SseIdle

PathNext == ValidatePath \/ PathResultTaken

PathSpec == PathInit /\ [][PathNext]_vars

\* The history file and the summary file over a session.
SumInit ==
    /\ TurnIdleButPlan
    /\ plan_file \in {NoPlan, OldPlan}
    /\ ToolIdle
    /\ PathIdle
    /\ SumIdle
    /\ HistIdle
    /\ SseIdle

SumNext == AppendHistory \/ SetWindow \/ Summarize \/ CreateSummaryFile \/ PassTaken

SumSpec == SumInit /\ [][SumNext]_vars

\* The load of the history, for every history file, cutoff and budget.
HistInit ==
    /\ TurnIdle
    /\ ToolIdle
    /\ PathIdle
    /\ SumIdle
    /\ history_txt \in HistoryFiles
    /\ load = NoLoad
    /\ SseIdle

HistNext == LoadHistory \/ LoadTaken

HistSpec == HistInit /\ [][HistNext]_vars

\* The responses OpenAIProvider.stream_chat reads, line by line, over the
\* requests of a session.
OpenAIInit == TurnIdle /\ ToolIdle /\ PathIdle /\ SumIdle /\ HistIdle /\ SseIdle

OpenAINext == OpenAIStreamChat \/ OpenAILine

OpenAISpec == OpenAIInit /\ [][OpenAINext]_vars

\* The responses AnthropicProvider.stream_chat reads.
AnthropicInit == TurnIdle /\ ToolIdle /\ PathIdle /\ SumIdle /\ HistIdle /\ SseIdle

AnthropicNext == AnthropicStreamChat \/ AnthropicLine

AnthropicSpec == AnthropicInit /\ [][AnthropicNext]_vars

(***************************************************************************)
(* Properties of the turn (Spec, FairSpec).                                *)
(***************************************************************************)
\* C1: every turn terminates, and it never starts a 26th tool-execution round:
\* chat_gpt reaches its end whatever the model streams and the user answers,
\* with tool_iteration at most 25.
C1_TurnTerminates ==
    /\ <>(pc = "done")
    /\ [](tool_iteration <= 25)

\* A turn that ran into the ceiling: 25 rounds done, then the loop test fails.
C1_Witness ==
    /\ pc = "done"
    /\ outcome = "ceiling"
    /\ tool_iteration = 25
    /\ requests = 25

\* The ids of the tool_result entries of a message sequence, in order.
RECURSIVE ResultIds(_)
ResultIds(msgs) ==
    IF msgs = <<>> THEN <<>>
    ELSE (IF Head(msgs).kind = "tool_result" THEN Head(msgs).ids ELSE <<>>)
         \o ResultIds(Tail(msgs))

\* C2: in a batch the calls are handed to execute_tool one at a time, in the
\* order of the batch, call k+1 only after call k has returned; once the batch
\* is over every call has run exactly once and the results are in the
\* message sequence in that order.
C2_BatchInOrder ==
    /\ pc = "exec" =>
          /\ executed = SubSeq(tool_calls_to_process, 1, Len(executed))
          /\ tool_results = SubSeq(executed, 1, Len(tool_results))
          /\ Len(executed) - Len(tool_results) = (IF running # 0 THEN 1 ELSE 0)
    /\ (pc # "exec" /\ executed # <<>>) =>
          /\ executed = tool_calls_to_process
          /\ ResultIds(messages) = tool_calls_to_process

\* The answers that approve a plan, and those that reject it.
ApproveAnswers == {"y", "Y", "yes"}
RejectAnswers == {"n", "N", "no"}

\* C9: when the user approves the presented plan, the plan file holds that
\* plan (in a session that keeps files, the only kind in which a plan can be
\* persisted), the message sequence ends with the assistant's plan message
\* followed by the directive, the planning phase is over, and the next step
\* is a provider request with no tool started.
C9_ApprovePersistsAndContinues ==
    [][ (pc = "approval" /\ approval' \in ApproveAnswers) =>
          /\ session_enabled => plan_file' = PlanFile(Strip(accumulated_content))
          /\ Len(messages') >= 2
          /\ messages'[Len(messages') - 1] =
                 Msg("assistant", "text", <<>>, accumulated_content)
          /\ messages'[Len(messages')] = Msg("user", "directive", <<>>, <<>>)
          /\ ~in_planning_phase'
          /\ pc' = "stream"
          /\ executed' = executed
          /\ running' = 0 ]_vars

\* C10: when the user rejects the presented plan the turn is over in that
\* step, with no provider request made, no tool started and the plan file as
\* it was; and nothing happens after the end of a turn.
C10_RejectEndsTurn ==
    [][ /\ pc # "done"
        /\ (pc = "approval" /\ approval' \in RejectAnswers) =>
              /\ pc' = "done"
              /\ outcome' = "cancelled"
              /\ requests' = requests
              /\ executed' = executed
              /\ running' = 0
              /\ tool_iteration' = tool_iteration
              /\ plan_file' = plan_file ]_vars

\* A plan rejected with "N" while an older approved plan is on disk.
C10_Witness ==
    /\ pc = "done"
    /\ outcome = "cancelled"
    /\ approval = "N"
    /\ plan_file = OldPlan
    /\ requests = 1

\* The answers that ask for a revision of the plan.
ReviseAnswers == {"r", "revise"}

\* C11: when the user asks for a revision, the revision request is appended as
\* a user message, the planning phase stays active, and the loop goes on with
\* a provider request.
C11_ReviseKeepsPlanning ==
    [][ (pc = "approval" /\ approval' \in ReviseAnswers) =>
          /\ messages' # <<>>
          /\ messages'[Len(messages')] = Msg("user", "revision", <<>>, <<>>)
          /\ in_planning_phase'
          /\ pc' = "stream" ]_vars

\* C12: with plan approval on and the display not suppressed, the third plan
\* presentation in a row (no tool executed in between) ends the turn with the
\* loop-detected error; the first and the second do not end it as an ordinary
\* answer, so that the model can come to present a third.
C12_ThirdPlanIsLoopError ==
    (require_plan_approval /\ ~suppress_display /\ pc = "done") =>
        /\ plan_presentations >= 3 =>
              EndNotice(outcome) = "ERROR: Model keeps presenting plans without executing"
        /\ plan_presentations \in {1, 2} => outcome # "answer"

\* C13: a response without tool calls that has GOAL: and PLAN: and no numbered
\* step ends the turn as an ordinary answer in that step: no prompt is shown
\* and the plan file is left as it was.
C13_NoStepsNoApproval ==
    [][ (/\ pc = "decide"
         /\ tool_calls_to_process = <<>>
         /\ Contains(accumulated_content, "GOAL:")
         /\ Contains(accumulated_content, "PLAN:")
         /\ ~Contains(accumulated_content, "1. ")) =>
          /\ pc' = "done"
          /\ outcome' = "answer"
          /\ approval' = "-"
          /\ plan_file' = plan_file
          /\ requests' = requests ]_vars

\* Markers without steps, streamed in the planning phase with an older plan on
\* disk: an ordinary answer.
C13_Witness ==
    /\ pc = "done"
    /\ outcome = "answer"
    /\ require_plan_approval
    /\ in_planning_phase
    /\ ~suppress_display
    /\ accumulated_content = <<"GOAL:", "PLAN:", "text">>
    /\ plan_file = OldPlan
    /\ approval = "-"

\* C14: a turn that stops at the iteration ceiling shows the user a message.
C14_CeilingIsAnnounced ==
    (pc = "done" /\ outcome = "ceiling") => EndNotice(outcome) # "none"

\* The ids of the tool calls the assistant entries of a message sequence
\* carry, in order.
RECURSIVE CallIds(_)
CallIds(msgs) ==
    IF msgs = <<>> THEN <<>>
    ELSE (IF Head(msgs).kind \in {"tool_calls", "tool_use"} THEN Head(msgs).ids ELSE <<>>)
         \o CallIds(Tail(msgs))

\* C15: whenever tools are offered to the model, a finished tool round has put
\* the call and the result of every executed call into the message sequence
\* before the next provider request.
C15_ResultsReachTheModel ==
    (ToolsOffered /\ pc = "stream" /\ executed # <<>>) =>
        /\ CallIds(messages) = executed
        /\ ResultIds(messages) = executed

\* C16: in the list shape every tool message comes right after an assistant
\* message with that one call id; in the Anthropic shape a finished round has
\* appended one assistant message with the tool_use blocks of the batch and
\* then one user message with their tool_results, ids in the order of the
\* batch; between two provider requests the sequence only grows.
C16_MessageShape ==
    /\ [](MessagesShape = "list" =>
             \A i \in 1..Len(messages) :
                 messages[i].role = "tool" =>
                     /\ i > 1
                     /\ messages[i - 1].role = "assistant"
                     /\ messages[i - 1].kind = "tool_calls"
                     /\ Len(messages[i].ids) = 1
                     /\ messages[i - 1].ids = messages[i].ids)
    /\ []((MessagesShape = "dict_messages" /\ pc = "stream" /\ executed # <<>>) =>
             /\ Len(messages) = 2
             /\ messages[1].role = "assistant" /\ messages[1].kind = "tool_use"
             /\ messages[1].ids = tool_calls_to_process
             /\ messages[2] = Msg("user", "tool_result", tool_calls_to_process, <<>>))
    /\ [][pc # "stream" =>
             (Len(messages') >= Len(messages)
              /\ SubSeq(messages', 1, Len(messages)) = messages)]_vars

\* OpenAI after a round of two calls, emitted as 2 then 1.
C16_Witness ==
    /\ provider_name = "openai"
    /\ pc = "stream"
    /\ executed = <<2, 1>>
    /\ Len(messages) = 4
    /\ messages[4].role = "tool"
    /\ messages[4].ids = <<1>>

\* C24: plan.md holds the most recently approved plan. In a session that keeps
\* files: approving the presented plan writes that plan to plan.md; asking for
\* a revision clears or replaces a plan persisted before; approving a revised
\* plan during execution writes the revised plan to plan.md.
C24_PersistedPlanIsLatest ==
    [][ session_enabled =>
          /\ (pc = "approval" /\ approval' \in ApproveAnswers) =>
                plan_file' = PlanFile(Strip(accumulated_content))
          /\ (pc = "approval" /\ approval' \in ReviseAnswers /\ plan_file.exists) =>
                plan_file' # plan_file
          /\ (pc = "revised_approval" /\ approval' \in ApproveAnswers) =>
                plan_file' = PlanFile(Strip(accumulated_content)) ]_vars

\* The ways a turn ends after a failure: the provider could not be created,
\* the messages could not be built, an exception in the loop.
ErrorOutcomes == {"provider_error", "messages_error", "exception"}

\* C26: a failure to create the provider or to build the messages, and an
\* exception raised while streaming or in a tool round, end the turn in the
\* step in which they happen: chat_gpt returns with the failure reported, no
\* tool is left running, and nothing - no request, no tool - follows.
C26_FailureEndsTurn ==
    /\ [](outcome \in ErrorOutcomes => (pc = "done" /\ running = 0))
    /\ [][ /\ pc # "done"
           /\ outcome' \in ErrorOutcomes =>
                 /\ pc' = "done"
                 /\ EndNotice(outcome') # "none"
                 /\ Len(executed') <= Len(executed) ]_vars

\* The second tool of a batch was never started: the first one raised.
C26_Witness ==
    /\ pc = "done"
    /\ outcome = "exception"
    /\ Len(executed) = 1
    /\ Len(tool_calls_to_process) = 2
    /\ requests = 1

\* Answers to the approval prompt that are neither yes, no nor revise.
UnrecognisedAnswers == {"", "maybe"}

\* C27: an empty or unrecognised answer to "Approve?" does not approve the
\* plan: plan.md stays as it was and the directive to execute step 1 is not
\* sent to the model.
C27_UnclearAnswerIsNo ==
    [][ (pc = "approval" /\ approval' \in UnrecognisedAnswers) =>
          /\ plan_file' = plan_file
          /\ ~ /\ messages' # <<>>
               /\ messages'[Len(messages')] = Msg("user", "directive", <<>>, <<>>)
          /\ in_planning_phase' = in_planning_phase ]_vars

RequireToolApproval ==
    IF cfg_new # "" THEN cfg_new ELSE IF cfg_old # "" THEN cfg_old ELSE "1"

\* C3: with tool approval switched on, a tool recorded as denied or as
\* always-allow gets that decision again, without a prompt, at every later
\* call, and stays recorded; an allow-once answer approves the call and leaves
\* the tool unset, so the next call prompts; a call never changes the record
\* of another tool; only clear_tool_approvals removes records, and it removes
\* them all.
C3_DecisionsAreSticky ==
    [][ /\ (last_call'.op = "execute_tool" /\ RequireToolApproval # "0") =>
              LET c == last_call'
                  t == last_call'.tool
              IN
              /\ (approved_tools[t] = "unset" /\ ~c.raised) => c.prompted
              /\ approved_tools[t] = "denied" =>
                    ~c.raised /\ ~c.approved /\ ~c.prompted /\ approved_tools'[t] = "denied"
              /\ approved_tools[t] = "always" =>
                    ~c.raised /\ c.approved /\ ~c.prompted /\ approved_tools'[t] = "always"
              /\ (approved_tools[t] = "unset" /\ c.prompted /\ c.answer = "1") =>
                    c.approved /\ approved_tools'[t] = "unset"
              /\ \A u \in ToolNames \ {t} : approved_tools'[u] = approved_tools[u]
        /\ last_call'.op # "execute_tool" =>
              approved_tools' \in {approved_tools, EmptyGate} ]_vars

\* C4: with tool approval switched on, a call of execute_tool for a tool the
\* gate holds as denied returns the blocked message with "denied" in it, does
\* not raise, and neither validates a path nor runs the tool's operation.
C4_DeniedShortCircuits ==
    (/\ last_call.op = "execute_tool"
     /\ last_call.before = "denied"
     /\ RequireToolApproval # "0") =>
        /\ ~last_call.raised
        /\ last_call.text = "Tool execution blocked: denied by user"
        /\ ~last_call.validated
        /\ last_call.body = "none"

\* C5: execute_tool returns a string, whatever the tool name, the arguments
\* and the configuration: it never raises.
C5_NeverRaises ==
    last_call.op = "execute_tool" => (~last_call.raised /\ last_call.text # "")

\* C6: the operation of a tool is handed a path only after validate_file_path
\* has accepted that path.
C6_PathsAreValidated ==
    (last_call.op = "execute_tool" /\ last_call.touched) =>
        (last_call.validated /\ last_call.vres.valid)

(***************************************************************************)
(* Properties of validate_file_path (PathSpec).                            *)
(***************************************************************************)
\* C7: a path with a ".." component anywhere in it is denied, and the user is
\* not prompted.
C7_DotDotDenied ==
    (vcall # NoVCall /\ \E i \in 1..Len(vcall.path.segs) : vcall.path.segs[i] = "..") =>
        (~vcall.res.valid /\ ~vcall.res.prompted)

\* C8 as stated: a path resolving under a system directory is denied without
\* a prompt; otherwise a path resolving inside the project root is allowed
\* without a prompt; otherwise the user is prompted and only the answer yes
\* allows.
C8_OrderAsStated ==
    vcall # NoVCall =>
        LET real == realpath(abspath(vcall.path)) IN
        IF MatchesBlockedPattern(real)
        THEN ~vcall.res.valid /\ ~vcall.res.prompted
        ELSE IF IsWithinProject(real)
        THEN vcall.res.valid /\ ~vcall.res.prompted
        ELSE vcall.res.prompted /\ (vcall.res.valid <=> vcall.answer = "1")

\* The path written climbs above the directory it starts from: os.path.normpath
\* leaves a ".." at its head.
ClimbsOut(p) ==
    /\ ~p.abs
    /\ \E i \in 1..Len(p.segs) :
          /\ p.segs[i] = ".."
          /\ Cardinality({j \in 1..i : p.segs[j] = ".."}) >
                 Cardinality({j \in 1..i : p.segs[j] \notin {"..", "."}})

\* C8 with the step the code takes second: a path resolving under a system
\* directory is denied without a prompt; otherwise a relative path that climbs
\* above its starting directory is denied without a prompt; otherwise a path
\* resolving inside the project root is allowed without a prompt; otherwise
\* the user is prompted and only the answer yes allows.
C8_Order ==
    vcall # NoVCall =>
        LET real == realpath(abspath(vcall.path)) IN
        IF MatchesBlockedPattern(real)
        THEN ~vcall.res.valid /\ ~vcall.res.prompted
        ELSE IF ClimbsOut(vcall.path)
        THEN ~vcall.res.valid /\ ~vcall.res.prompted
        ELSE IF IsWithinProject(real)
        THEN vcall.res.valid /\ ~vcall.res.prompted
        ELSE vcall.res.prompted /\ (vcall.res.valid <=> vcall.answer = "1")

\* A path outside the project, not a system path, allowed on the answer yes.
C8_Witness ==
    /\ vcall.path = Path(TRUE, <<"home", "f">>)
    /\ vcall.res.prompted
    /\ vcall.res.valid
    /\ vcall.answer = "1"


(***************************************************************************)
(* Properties of the conversation summary (SumSpec).                       *)
(***************************************************************************)
\* The cutoff a reader of summary.md finds recorded.
RecordedCutoff(file) == get_summary_cutoff(file)

\* C17: the recorded cutoff never decreases: over history appends, changes of
\* the configured recent window, summary passes and create_file calls on the
\* summary path, every step leaves the recorded cutoff at least where it was.
C17_CutoffMonotonic ==
    [][RecordedCutoff(summary') >= RecordedCutoff(summary)]_vars

\* The recent window the configuration asks for when reading it succeeds.
ConfiguredWindow == IF win_new # "" THEN IntOf(win_new) ELSE 30480

\* C18: after a summary pass that wrote summary.md, with the history of size H
\* and the configured recent window W, get_summary_cutoff and the read of
\* chat_gpt both return max(0, H - W).
C18_CutoffRoundTrip ==
    (last_pass.op = "summarize" /\ last_pass.wrote) =>
        /\ get_summary_cutoff(summary) = Max(0, history.size - ConfiguredWindow)
        /\ summary_cutoff_byte(summary) = Max(0, history.size - ConfiguredWindow)

\* A pass wrote a summary with a cutoff of several digits, ending in 0 and not,
\* whose text itself quotes a cutoff_byte line.
C18_Witness ==
    /\ last_pass.op = "summarize"
    /\ last_pass.wrote
    /\ get_summary_cutoff(summary) = 219520
    /\ Len(summary.lines) > 4
    /\ summary.lines[Len(summary.lines)].tag = "cutoff_byte"

\* C19: a summary pass reads history bytes of [oldCutoff, newCutoff) only: what
\* it reads starts at or after the cutoff recorded before the pass and ends at
\* or before the cutoff it computed.
C19_ReadsOnlyNewBytes ==
    (last_pass.op = "summarize" /\ last_pass.count > 0) =>
        /\ last_pass.start >= last_pass.old
        /\ last_pass.start + last_pass.count <= last_pass.new

\* C20: a summary pass reads at most max_compaction_total bytes of history.
C20_ReadIsBounded ==
    last_pass.op = "summarize" => last_pass.count <= max_compaction_total


\* The text of a summary file without its metadata header: the comment lines
\* at the start, up to the blank line that ends the header, do not count.
SummaryBody(lines) ==
    IF lines = <<>> \/ ~OpensComment(lines[1]) THEN lines
    ELSE LET blanks == { i \in 1..Len(lines) : lines[i].tag = "" }
         IN IF blanks = {} THEN <<>>
            ELSE DropBlank(SubSeq(lines, (CHOOSE i \in blanks : \A j \in blanks : i <= j),
                                  Len(lines)))

\* C21: a summary pass whose request reaches the model asks it to extend the
\* existing summary, with that summary's text without the metadata header in
\* the request, whenever a non-empty summary.md exists, whatever cutoff it
\* records; it asks for a fresh summary only when there is none.
C21_ExtendsExistingSummary ==
    [][ (last_pass = NoPass /\ prompt'.sent) =>
          IF summary.exists /\ summary.lines # <<>>
          THEN /\ prompt'.mode = "extend"
               /\ prompt'.old_text = SummaryBody(summary.lines)
          ELSE prompt'.mode = "fresh" ]_vars

\* The topic headings of a summary text.
Headings(lines) ==
    { lines[i].tag : i \in { j \in 1..Len(lines) : lines[j].tag \in {"## Topic A", "## Topic B"} } }

\* C22: after a summary pass in extension mode has written summary.md, every
\* topic heading of the previous summary is in the stored one, whatever text
\* the model returned.
C22_ExtensionKeepsHeadings ==
    [][ (last_pass = NoPass /\ prompt'.mode = "extend" /\ last_pass'.wrote) =>
          Headings(summary.lines) \subseteq Headings(summary'.lines) ]_vars

\* C23: a summary pass leaves an existing plan.md as it is, whatever plan text
\* the summarized range contains; an extracted plan is saved only when no
\* plan.md exists.
C23_ExistingPlanKept ==
    [][ (last_pass = NoPass /\ last_pass'.op = "summarize" /\ plan_file.exists) =>
          plan_file' = plan_file ]_vars

\* A pass read a range holding a complete plan while plan.md held the plan of
\* an earlier turn.
C23_Witness ==
    /\ last_pass.op = "summarize"
    /\ last_pass.count > 0
    /\ extract_plan_from_conversation(prompt.conversation) # <<>>
    /\ prompt.has_active_plan
    /\ plan_file = OldPlan


(***************************************************************************)
(* Properties of the history load (HistSpec).                              *)
(***************************************************************************)
\* The messages that history.txt holds at or after the byte offset `cutoff`,
\* oldest first: for every role marker after the offset, the bytes that follow
\* it up to the next separator.
MessagesAfter(file, cutoff) ==
    LET marks == { i \in 1..Len(file) : file[i] = ROLE /\ i > cutoff }
        EndOf(i) == IF \E j \in (i + 1)..Len(file) : file[j] = SEP
                    THEN (CHOOSE j \in (i + 1)..Len(file) :
                             file[j] = SEP /\ \A k \in (i + 1)..(j - 1) : file[k] # SEP) - 1
                    ELSE Len(file)
        Nth(n) == CHOOSE i \in marks : Cardinality({ j \in marks : j < i }) = n - 1
    IN [n \in 1..Cardinality(marks) |-> SubSeq(file, Nth(n) + 1, EndOf(Nth(n)))]

\* The newest k of the messages msgs, oldest first.
Newest(msgs, k) == SubSeq(msgs, Len(msgs) - k + 1, Len(msgs))

\* C25: the loaded history is, in chronological order, the newest k of the n
\* messages at or after the cutoff; k is at least min(4, n); every message
\* beyond the newest four was taken with the budget minus the lengths of all
\* messages taken so far still positive; and the first message left out would
\* have made it non-positive.
C25_BoundedHistoryLoad ==
    load.done =>
        LET all == MessagesAfter(history_txt, load.cutoff)
            n   == Len(all)
            k   == Len(load.history)
        IN /\ k <= n
           /\ load.history = Newest(all, k)
           /\ k >= Min(min_messages, n)
           /\ \A j \in (Min(min_messages, n) + 1)..k :
                 load.budget - SumLen(Newest(all, j)) > 0
           /\ k < n => load.budget - SumLen(Newest(all, k + 1)) <= 0

\* A load from a positive cutoff that left messages before it out, took one
\* message beyond the newest four and stopped at the next.
C25_Witness ==
    /\ load.done
    /\ load.cutoff > 2
    /\ Len(load.history) = min_messages + 1
    /\ Len(MessagesAfter(history_txt, load.cutoff)) > min_messages + 1
    /\ Len(MessagesAfter(history_txt, 0)) > Len(MessagesAfter(history_txt, load.cutoff))


(***************************************************************************)
(* Further properties of the Approval Gate (ToolSpec).                     *)
(***************************************************************************)
\* C28: a call that prompted for the tool is approved exactly on the answers
\* "1" (allow once) and "2" (always allow); on an empty answer, a cancel, any
\* other value or a failing prompt it is not approved, returns a string and
\* the tool's operation does not run.
C28_PromptDefaultsToDeny ==
    (last_call.op = "execute_tool" /\ last_call.prompted) =>
        /\ last_call.before = "unset"
        /\ last_call.approved <=> last_call.answer \in {"1", "2"}
        /\ ~last_call.approved =>
              /\ last_call.body = "none"
              /\ ~last_call.raised
              /\ ~last_call.validated

\* The prompt was answered with nothing: denied, the operation did not run.
C28_Witness ==
    /\ last_call.op = "execute_tool"
    /\ last_call.prompted
    /\ last_call.answer = ""
    /\ ~last_call.approved
    /\ last_call.body = "none"
    /\ last_call.tool = "create_file"

\* The tools the tests call read-only, and those they call write tools.
ReadOnlyTools == {"get_working_directory", "list_directory", "read_file",
                  "git_status", "git_diff", "git_log"}
WriteTools == {"create_file", "edit_file", "git_add", "git_commit"}

\* C29: with tool approval switched on, the first use of a read-only tool is
\* approved without a prompt, and the first use of a write tool prompts.
C29_OnlyWriteToolsPrompt ==
    (/\ last_call.op = "execute_tool"
     /\ RequireToolApproval # "0"
     /\ ~last_call.raised
     /\ last_call.before = "unset") =>
        /\ last_call.tool \in ReadOnlyTools => (last_call.approved /\ ~last_call.prompted)
        /\ last_call.tool \in WriteTools => last_call.prompted

(***************************************************************************)
(* Properties of get_config (ToolSpec).                                    *)
(***************************************************************************)
\* C34: get_config returns the new-name value when that is set and non-empty,
\* otherwise the old-name value when that is set and non-empty, otherwise the
\* default; it returns a value in each of these cases and does not raise.
C34_ConfigFallback ==
    last_call.op = "execute_tool" =>
        LET r == get_config(cfg_new, cfg_old, "1")
        IN /\ ~r.raised
           /\ cfg_new # "" => r.value = cfg_new
           /\ (cfg_new = "" /\ cfg_old # "") => r.value = cfg_old
           /\ (cfg_new = "" /\ cfg_old = "") => r.value = "1"

(***************************************************************************)
(* Further properties of the turn (Spec): plan approval and the tool       *)
(* rounds.                                                                 *)
(***************************************************************************)
\* C35: with plan approval required and the planning phase over, a response
\* that carries tool calls together with a revised-plan marker is put to the
\* user before any of its tools runs; on any answer but an explicit yes the
\* turn ends with none of the batch executed; in the planning phase the
\* prompt is not shown.
C35_RevisedPlanIsAsked ==
    [][ /\ (pc = "decide" /\ tool_calls_to_process # <<>> /\ require_plan_approval) =>
              /\ (~in_planning_phase /\ Contains(accumulated_content, "REVISED PLAN")) =>
                    /\ pc' = "revised_approval"
                    /\ tool_iteration' = tool_iteration
                    /\ executed' = <<>>
                    /\ running' = 0
              /\ in_planning_phase => pc' # "revised_approval"
        /\ (pc = "revised_approval" /\ approval' \notin ApproveAnswers) =>
              /\ pc' = "done"
              /\ outcome' = "revised_cancelled"
              /\ tool_iteration' = tool_iteration
              /\ executed' = <<>>
              /\ running' = 0 ]_vars

\* After a tool round, a revised plan with tool calls was put to the user, who
\* pressed Enter: the turn is over and nothing of that batch was executed.
C35_Witness ==
    /\ pc = "done"
    /\ outcome = "revised_cancelled"
    /\ approval = ""
    /\ require_plan_approval
    /\ ~in_planning_phase
    /\ tool_iteration = 1
    /\ tool_calls_to_process # <<>>
    /\ executed = <<>>

\* C36: with plan approval required, no tool call is handed to execute_tool
\* while the turn is still in its planning phase.
C36_NoToolBeforeApproval ==
    (require_plan_approval /\ in_planning_phase) =>
        (running = 0 /\ executed = <<>>)

\* C37: the tool-execution step (the increment of the iteration counter, the
\* dispatch of tools) is entered only after a response that carried at least
\* one tool call; a plan presentation never leads into it.
C37_ToolRoundNeedsToolCalls ==
    [][ (tool_iteration' # tool_iteration \/ running' # 0) =>
            /\ tool_calls_to_process # <<>>
            /\ tool_calls_to_process' = tool_calls_to_process ]_vars

\* C38: within one turn the planning phase, once left, is not entered again;
\* the approval prompt for the initial plan is reached only in the planning
\* phase and every answer to it ends the turn or the planning phase, so the
\* user is asked at most once; the plan-loop counter never exceeds 1; and the
\* turn makes at most max_tool_iterations + 1 = 26 stream requests.
C38_OnePlanPromptPerTurn ==
    /\ [](plan_loop_count <= 1 /\ requests <= max_tool_iterations + 1)
    /\ [][ /\ (pc # "start" /\ ~in_planning_phase) => ~in_planning_phase'
           /\ (pc # "approval" /\ pc' = "approval") =>
                  (in_planning_phase /\ plan_loop_count = 0)
           /\ pc = "approval" => (pc' = "done" \/ ~in_planning_phase') ]_vars

\* A turn that asked for its plan's approval, ran 25 tool rounds and made its
\* 26th request before it stopped at the ceiling.
C38_Witness ==
    /\ pc = "done"
    /\ outcome = "ceiling"
    /\ require_plan_approval
    /\ ~in_planning_phase
    /\ tool_iteration = max_tool_iterations
    /\ requests = max_tool_iterations + 1

(***************************************************************************)
(* Further properties of the summary passes (SumSpec).                     *)
(***************************************************************************)
\* C39: no history is lost to compaction: a pass that records a new cutoff
\* has read every byte between the cutoff recorded before it and the one it
\* records, so that every byte below a recorded cutoff has been the input of
\* some pass, also when the backlog exceeds the per-pass maximum.
C39_NoHistoryLost ==
    (last_pass.op = "summarize" /\ last_pass.wrote) =>
        /\ last_pass.start <= last_pass.old
        /\ last_pass.start + last_pass.count >= last_pass.new

\* The ways a summary pass fails: history.txt missing or unreadable, no
\* provider, message building or streaming raising, an empty response.
FailedPass == {"no_history", "read_error", "provider_error", "messages_error",
               "stream_error", "empty"}

\* C40: a failed summary pass leaves summary.md, and with it the recorded
\* cutoff, exactly as they were before the call.
C40_FailedPassChangesNothing ==
    [][ (last_pass'.op = "summarize" /\ last_pass'.how \in FailedPass) =>
            /\ summary' = summary
            /\ get_summary_cutoff(summary') = get_summary_cutoff(summary)
            /\ ~last_pass'.wrote ]_vars

\* The model answered with nothing while a backlog stood behind an existing
\* summary: the pass computed a higher cutoff and summary.md still records
\* the old one.
C40_Witness ==
    /\ last_pass.op = "summarize"
    /\ last_pass.how = "empty"
    /\ summary.exists
    /\ last_pass.old > 0
    /\ last_pass.new > last_pass.old
    /\ get_summary_cutoff(summary) = last_pass.old

(***************************************************************************)
(* Properties of the history record of a turn (Spec).                      *)
(***************************************************************************)
\* C31: with session persistence enabled, a turn that has completed with the
\* model's answer has appended the user's prompt and the assistant's reply
\* to history.txt; history.txt only grows; with session persistence disabled
\* nothing is written to it.
C31_TurnIsRecorded ==
    /\ []((pc = "done" /\ outcome = "answer" /\ session_enabled) =>
             /\ "prompt" \in appended
             /\ accumulated_content # <<>> => "reply" \in appended)
    /\ [](~session_enabled => appended = {})
    /\ [][appended \subseteq appended']_vars

(***************************************************************************)
(* Properties of the provider adapters (OpenAISpec, AnthropicSpec).        *)
(***************************************************************************)
\* The indices of `log` in the order in which they first arrived.
RECURSIVE FirstArrivals(_, _)
FirstArrivals(log, seen) ==
    IF log = <<>> THEN <<>>
    ELSE IF Head(log).index \in seen THEN FirstArrivals(Tail(log), seen)
    ELSE <<Head(log).index>> \o FirstArrivals(Tail(log), seen \cup {Head(log).index})

\* The fragments of `log` for the index idx, concatenated in arrival order.
RECURSIVE Concatenation(_, _)
Concatenation(log, idx) ==
    IF log = <<>> THEN <<>>
    ELSE (IF Head(log).index = idx THEN Head(log).text ELSE <<>>)
         \o Concatenation(Tail(log), idx)

\* The last id and the last name `log` gives for idx, "" when it gives none.
RECURSIVE LastId(_, _)
LastId(log, idx) ==
    IF log = <<>> THEN ""
    ELSE LET a == log[Len(log)]
         IN IF a.index = idx /\ a.id # "-" THEN a.id
            ELSE LastId(SubSeq(log, 1, Len(log) - 1), idx)

RECURSIVE LastName(_, _)
LastName(log, idx) ==
    IF log = <<>> THEN ""
    ELSE LET a == log[Len(log)]
         IN IF a.index = idx /\ a.name # "-" THEN a.name
            ELSE LastName(SubSeq(log, 1, Len(log) - 1), idx)

\* The calls of `log` whose concatenated text parses, one per index in `order`.
RECURSIVE ParsingCalls(_, _)
ParsingCalls(log, order) ==
    IF order = <<>> THEN <<>>
    ELSE LET idx == Head(order)
             r   == json_loads(Concatenation(log, idx))
         IN (IF r.ok THEN <<ToolCall(LastId(log, idx), LastName(log, idx), r.value)>>
             ELSE <<>>)
            \o ParsingCalls(log, Tail(order))

\* C32: OpenAI adapter: the fragments of a tool call's arguments are
\* concatenated per index in arrival order; the event with a finish-reason
\* carries exactly the calls whose concatenated text parses as JSON (None
\* when no tool call has come in), a call whose text does not parse being
\* left out; an event without a finish-reason carries no tool calls.
C32_OpenAIToolCalls ==
    \A i \in 1..Len(yielded) :
        LET e == yielded[i]
        IN /\ e.finish_reason = "" => e.tool_calls = TcNone
           /\ e.finish_reason # "" =>
                 /\ e.content = <<>>
                 /\ e.tool_calls =
                        IF arrived = <<>> THEN TcNone
                        ELSE TcList(ParsingCalls(arrived, FirstArrivals(arrived, {})))

\* The arguments of call 0 came in two fragments with a fragment of call 1
\* between them; call 1 never got its closing brace. The finish event carries
\* call 0 alone.
C32_Witness ==
    /\ Len(yielded) = 1
    /\ yielded[1].finish_reason = "tool_calls"
    /\ Len(arrived) = 3
    /\ arrived[1].index = 0 /\ arrived[1].text = <<"{">>
    /\ arrived[2].index = 1 /\ arrived[2].text = <<"{">>
    /\ arrived[3].index = 0 /\ arrived[3].text = <<"}">>
    /\ yielded[1].tool_calls = TcList(<<ToolCall("call_a", "read_file", {})>>)

\* The place of the last tool_use block start for idx in `log`, 0 if none.
LastStart(log, idx) ==
    LET starts == {i \in 1..Len(log) : log[i].kind = "start" /\ log[i].index = idx} \cup {0}
    IN CHOOSE m \in starts : \A i \in starts : i <= m

\* What `log` has carried for idx since the last start of a block at idx.
SinceStart(log, idx) == SubSeq(log, LastStart(log, idx) + 1, Len(log))

\* The calls of `log`, one per index in `order`: the arguments are the parse
\* of the fragments received for the index since its block started, {} when
\* they are empty or whitespace only; a block whose input does not parse has
\* no call.
RECURSIVE BlockCalls(_, _)
BlockCalls(log, order) ==
    IF order = <<>> THEN <<>>
    ELSE LET idx   == Head(order)
             input == Concatenation(SinceStart(log, idx), idx)
             blank == SelectSeq(input, NotWhitespace) = <<>>
             r     == json_loads(input)
         IN (IF blank THEN <<ToolCall(LastId(log, idx), LastName(log, idx), {})>>
             ELSE IF r.ok THEN <<ToolCall(LastId(log, idx), LastName(log, idx), r.value)>>
             ELSE <<>>)
            \o BlockCalls(log, Tail(order))

\* C33: Anthropic adapter: every tool_use block gets as arguments the JSON
\* parse of its input_json_delta fragments, concatenated in arrival order
\* from the start of the block on, an input that is empty or only whitespace
\* giving the empty map; a block whose input does not parse is dropped and
\* the event is still yielded; tool calls are carried only by the event of
\* the message_delta with a stop reason.
C33_AnthropicToolCalls ==
    \A i \in 1..Len(yielded) :
        LET e == yielded[i]
        IN /\ e.finish_reason = "" => e.tool_calls = TcNone
           /\ e.finish_reason # "" =>
                 e.tool_calls =
                     IF arrived = <<>> THEN TcNone
                     ELSE TcList(BlockCalls(arrived, FirstArrivals(arrived, {})))

\* A block was started and its input came in two fragments: the event of the
\* message_delta carries the call with the parsed input.
C33_Witness ==
    /\ Len(yielded) = 1
    /\ yielded[1].finish_reason = "tool_use"
    /\ Len(arrived) = 3
    /\ arrived[1].kind = "start" /\ arrived[1].index = 1
    /\ arrived[2].kind = "delta" /\ arrived[2].index = 1 /\ arrived[2].text = <<"{">>
    /\ arrived[3].kind = "delta" /\ arrived[3].index = 1 /\ arrived[3].text = <<"}">>
    /\ yielded[1].tool_calls = TcList(<<ToolCall("toolu_b", "git_status", {})>>)

\* Every index of `log` belongs to a block that was started once, before any
\* of its fragments.
StartedOnce(log) ==
    \A i \in 1..Len(log) :
        /\ Len(FirstArrivals(SubSeq(log, 1, i), {})) > 0
        /\ LET idx   == log[i].index
               first == CHOOSE j \in 1..i :
                            /\ log[j].index = idx
                            /\ \A k \in 1..(j - 1) : log[k].index # idx
           IN /\ log[first].kind = "start"
              /\ log[i].kind = "start" => i = first

\* The calls of `log` as the claim words them: the parse of all fragments of
\* the index, {} for the empty concatenation only.
RECURSIVE BlockCallsEmptyOnly(_, _)
BlockCallsEmptyOnly(log, order) ==
    IF order = <<>> THEN <<>>
    ELSE LET idx   == Head(order)
             input == Concatenation(log, idx)
             r     == json_loads(input)
         IN (IF input = <<>> THEN <<ToolCall(LastId(log, idx), LastName(log, idx), {})>>
             ELSE IF r.ok THEN <<ToolCall(LastId(log, idx), LastName(log, idx), r.value)>>
             ELSE <<>>)
            \o BlockCallsEmptyOnly(log, Tail(order))

\* C33 as stated: for blocks started by a block-start event, the arguments
\* are the JSON parse of the concatenated fragments of the block index, the
\* empty concatenation giving the empty map and an input that does not parse
\* dropping the block; tool calls only on the message_delta with a stop
\* reason.
C33_AsStated ==
    \A i \in 1..Len(yielded) :
        LET e == yielded[i]
        IN /\ e.finish_reason = "" => e.tool_calls = TcNone
           /\ (e.finish_reason # "" /\ arrived # <<>> /\ StartedOnce(arrived)) =>
                 e.tool_calls =
                     TcList(BlockCallsEmptyOnly(arrived, FirstArrivals(arrived, {})))

====
